---- MODULE Spec2Model ----
(***************************************************************************)
(* A model of the AMPL-2020 compiler front end: the generic hash table     *)
(* (hashtable.c), the two-level symbol table built on it (symboltable.c),  *)
(* the interactive symbol-table driver (testsymboltable.c) and the         *)
(* recursive-descent parser / type checker / code generator (amplc.c).     *)
(*                                                                         *)
(* Heap objects are modelled by their addresses: an IDprop is an index     *)
(* into the sequence props, a HashTab an index into the sequence tabs, and *)
(* 0 is the NULL pointer.  Two pointers are aliases exactly when the       *)
(* indices are equal.                                                      *)
(*                                                                         *)
(* A fatal error (abort_compile, check_types) ends the process: it is      *)
(* recorded in err and no further operation is enabled.                    *)
(***************************************************************************)
EXTENDS Integers, Sequences, FiniteSets, TLC

(***************************************************************************)
(* Bounds of the model.                                                    *)
(***************************************************************************)
\* the driver session inserts at most this many identifiers
MaxProps == 3
\* the subroutine definitions of a program
MaxFuncs == 1
\* the statements of the bodies of a program
MaxStmts == 2
\* the arguments of a call
MaxArgs == 3
\* the statements of a program whose statements are drawn from TypedStatements
MaxTypedStmts == 1

\* the distinct keys a caller of the hash table inserts
MaxKeys == 11

\* the length of the source texts drawn over the characters of comments
\* and strings
MaxTextLen == 4

\* the length of the beginnings of reserved words given as source texts
MaxPrefixLen == 3

(***************************************************************************)
(* valtypes.h: the ValType bit set.                                        *)
(***************************************************************************)
TYPE_NONE == 0
TYPE_ARRAY == 1
TYPE_BOOLEAN == 2
TYPE_INTEGER == 4
TYPE_CALLABLE == 8

\* bitwise operators on ValType values; -1 is the word of all ones
RECURSIVE BitAnd(_, _)
BitAnd(a, b) ==
    IF a = -1 THEN b
    ELSE IF b = -1 THEN a
    ELSE IF a = 0 \/ b = 0 THEN 0
    ELSE (IF a % 2 = 1 /\ b % 2 = 1 THEN 1 ELSE 0) + 2 * BitAnd(a \div 2, b \div 2)

RECURSIVE BitOr(_, _)
BitOr(a, b) ==
    IF a = -1 \/ b = -1 THEN -1
    ELSE IF a = 0 THEN b
    ELSE IF b = 0 THEN a
    ELSE (IF a % 2 = 1 \/ b % 2 = 1 THEN 1 ELSE 0) + 2 * BitOr(a \div 2, b \div 2)

RECURSIVE BitXor(_, _)
BitXor(a, b) ==
    IF a = 0 THEN b
    ELSE IF b = 0 THEN a
    ELSE (IF (a % 2) # (b % 2) THEN 1 ELSE 0) + 2 * BitXor(a \div 2, b \div 2)

IS_ARRAY_TYPE(type) == BitAnd(type, TYPE_ARRAY) # 0
IS_BOOLEAN_TYPE(type) == BitAnd(type, TYPE_BOOLEAN) # 0
IS_CALLABLE_TYPE(type) == BitAnd(type, TYPE_CALLABLE) # 0
IS_INTEGER_TYPE(type) == BitAnd(type, TYPE_INTEGER) # 0
IS_ARRAY(type) == IS_ARRAY_TYPE(type) /\ ~IS_CALLABLE_TYPE(type)
IS_PROCEDURE(type) ==
    IS_CALLABLE_TYPE(type) /\ ~IS_BOOLEAN_TYPE(type) /\ ~IS_INTEGER_TYPE(type)
IS_FUNCTION(type) == IS_CALLABLE_TYPE(type) /\ ~IS_PROCEDURE(type)
IS_VARIABLE(type) ==
    ~IS_CALLABLE_TYPE(type) /\ (IS_BOOLEAN_TYPE(type) \/ IS_INTEGER_TYPE(type))

(***************************************************************************)
(* Identifiers.  A C string is the sequence of its character codes; the    *)
(* model names identifiers by TLA+ strings and spells them here.           *)
(***************************************************************************)
Spellings ==
    [ a |-> <<97>>, b |-> <<98>>, c |-> <<99>>, d |-> <<100>>, e |-> <<101>>,
      f |-> <<102>>, g |-> <<103>>, h |-> <<104>>, i |-> <<105>>, j |-> <<106>>,
      k |-> <<107>>, l |-> <<108>>, n |-> <<110>>, x |-> <<120>>, y |-> <<121>>,
      main |-> <<109, 97, 105, 110>> ]

Spelling(id) == Spellings[id]

(***************************************************************************)
(* symboltable.c: shift_hash and key_strcmp.                               *)
(***************************************************************************)
bit_shift == 2

Pow2(n) == 2 ^ n

\* hash is an unsigned int: the left shift by bit_shift drops the top
\* bit_shift bits of the 32
UINT_BITS == 32

RECURSIVE shift_hash_from(_, _, _)
shift_hash_from(cp, i, hash) ==
    IF i > Len(cp) THEN hash
    ELSE shift_hash_from(cp, i + 1,
             ((hash + cp[i]) % Pow2(UINT_BITS - bit_shift)) * Pow2(bit_shift))

shift_hash(key, size) == shift_hash_from(Spelling(key), 1, 0) % size

key_strcmp(val1, val2) == IF Spelling(val1) = Spelling(val2) THEN 0 ELSE 1

(***************************************************************************)
(* hashtable.c.  A HashTab is a record; table[k] is the chain of bucket k, *)
(* in next_ptr order, each entry a key and the address of its value.       *)
(***************************************************************************)
INITIAL_DELTA_INDEX == 4

delta == <<0, 0, 1, 1, 3, 1, 3, 1, 5, 3, 3, 9, 3, 1, 3, 19, 15,
           1, 5, 1, 3, 9, 3, 15, 3, 39, 5, 39, 57, 3, 35, 1>>

\* the load factor 0.75f every table of the symbol table is made with
max_loadfactor_num == 3
max_loadfactor_den == 4

EXIT_SUCCESS == 0
HASH_TABLE_KEY_VALUE_PAIR_EXISTS == 1

getsize(idx) == Pow2(idx) - delta[idx + 1]

\* The bucket array comes from malloc; a block that was never freed before
\* is a fresh zero-filled page, so every bucket starts as the NULL chain.
ht_init ==
    [ size |-> getsize(INITIAL_DELTA_INDEX),
      num_entries |-> 0,
      idx |-> INITIAL_DELTA_INDEX,
      freed |-> FALSE,
      table |-> [k \in 0 .. getsize(INITIAL_DELTA_INDEX) - 1 |-> <<>>] ]

\* the loop of ht_search over the chain of bucket k, from its i-th entry on
RECURSIVE ChainFind(_, _, _)
ChainFind(chain, key, i) ==
    IF i > Len(chain) THEN [found |-> FALSE, value |-> 0]
    ELSE IF key_strcmp(key, chain[i].key) = 0
    THEN [found |-> TRUE, value |-> chain[i].value]
    ELSE ChainFind(chain, key, i + 1)

ht_search(ht, key) == ChainFind(ht.table[shift_hash(key, ht.size)], key, 1)

\* the entries of a table in the order rehash visits them
RECURSIVE EntriesFrom(_, _)
EntriesFrom(ht, i) ==
    IF i >= ht.size THEN <<>> ELSE ht.table[i] \o EntriesFrom(ht, i + 1)

NeedsRehash(ht) ==
    (ht.num_entries + 1) * max_loadfactor_den >= ht.size * max_loadfactor_num

\* the chaining loop of ht_insert: the new entry goes to the end of bucket k
ChainAppend(ht, key, value) ==
    [ht EXCEPT !.table[shift_hash(key, ht.size)] =
                   Append(@, [key |-> key, value |-> value]),
               !.num_entries = @ + 1]

RECURSIVE InsertAll(_, _, _)
InsertAll(ht, es, i) ==
    IF i > Len(es) THEN ht
    ELSE InsertAll(ChainAppend(ht, es[i].key, es[i].value), es, i + 1)

\* rehash frees the caller's HashTab and assigns the new one to its own
\* parameter only.  heap = "reused": the malloc that follows ht_free returns
\* the block just freed, so the caller's pointer designates the copy of the
\* new table.  heap = "moved": it returns another block and the caller is
\* left with the freed table.
rehash(ht, heap) ==
    IF heap = "reused"
    THEN InsertAll([ size |-> getsize(ht.idx + 1), num_entries |-> 0,
                     idx |-> ht.idx + 1, freed |-> FALSE,
                     table |-> [k \in 0 .. getsize(ht.idx + 1) - 1 |-> <<>>] ],
                   EntriesFrom(ht, 0), 1)
    ELSE [ht EXCEPT !.freed = TRUE, !.idx = ht.idx + 1]

\* ht_insert after the rehash, if any, left the caller with h1: a table
\* that was freed takes no entry the process can rely on
ht_insert_chain(h1, key, value) ==
    IF h1.freed
    THEN [rc |-> EXIT_SUCCESS, ht |-> h1]
    ELSE [rc |-> EXIT_SUCCESS, ht |-> ChainAppend(h1, key, value)]

ht_insert(ht, key, value, heap) ==
    IF ht_search(ht, key).found
    THEN [rc |-> HASH_TABLE_KEY_VALUE_PAIR_EXISTS, ht |-> ht]
    ELSE ht_insert_chain(IF NeedsRehash(ht) THEN rehash(ht, heap) ELSE ht,
                         key, value)

HeapOutcomes == {"reused", "moved"}

(***************************************************************************)
(* The state.                                                              *)
(***************************************************************************)
VARIABLES
    props,          \* the heap of IDprop structures
    tabs,           \* the heap of HashTab structures
    table,          \* symboltable.c: the current scope
    saved_table,    \* symboltable.c: the enclosing scope, or NULL
    curr_offset,    \* symboltable.c: the running local-variable offset, as
                    \* the int that get_variables_width returns for it
    err,            \* the fatal error that ended the process, if any
    main_is_active, \* testsymboltable.c: no subroutine is open
    out,            \* testsymboltable.c: the command just run and its outcome
    pc,             \* amplc.c: where the parser stands in the program
    in_main,        \* amplc.c: parse_program is past "main"
    return_type,    \* amplc.c: return type of the subroutine being parsed
    is_assign,      \* amplc.c: inside parse_assign
    stack_depth,    \* amplc.c
    max_stack_depth,\* amplc.c
    is_if_or_while, \* amplc.c
    code,           \* the calls made into the code generator, in order
    nlabels,        \* the number of labels get_label has handed out
    nfuncs,         \* the number of subroutine headers accepted
    nstmts,         \* the number of statements of bodies parsed
    last,           \* the construct just parsed
    scanner         \* scanner.c: the globals of the scanner

NULL == 0

\* a process that has not failed
NoErr == [kind |-> "none", id |-> "", found |-> 0, expected |-> 0, msg |-> ""]

\* abort_compile(err, id): the message is printed and the process exits
abort_compile(kind, id) ==
    [kind |-> kind, id |-> id, found |-> 0, expected |-> 0, msg |-> ""]

\* the process touched freed memory: whatever follows is undefined
Undefined == [kind |-> "undefined", id |-> "", found |-> 0, expected |-> 0, msg |-> ""]

\* the symbol table as one value, for the operators below
SymTab ==
    [ props |-> props, tabs |-> tabs, table |-> table,
      saved_table |-> saved_table, curr_offset |-> curr_offset, err |-> err ]

(***************************************************************************)
(* symboltable.c.                                                          *)
(***************************************************************************)
\* the search r2 of the enclosing scope taken without the callable test
find_name_enclosing_any(S, r2) == [found |-> r2.found, prop |-> r2.value]

\* find_name after the search r2 of the enclosing scope: only a callable
\* is visible from inside a subroutine
find_name_enclosing(S, r2) ==
    [ found |-> r2.found /\ IS_CALLABLE_TYPE(S.props[r2.value].type),
      prop |-> r2.value ]

\* find_name after the search r1 of the current scope
find_name_current(S, id, r1) ==
    IF r1.found THEN [found |-> TRUE, prop |-> r1.value]
    ELSE IF S.saved_table # NULL
    THEN find_name_enclosing(S, ht_search(S.tabs[S.saved_table], id))
    ELSE [found |-> FALSE, prop |-> NULL]

\* prop is what the caller's pointer holds afterwards: NULL stands for a
\* pointer that was not written, and a variable of the enclosing scope is
\* written to it although FALSE is returned
find_name(S, id) == find_name_current(S, id, ht_search(S.tabs[S.table], id))

\* the offset assignment of insert_name
TakesOffset(id, type) ==
    /\ IS_INTEGER_TYPE(type) \/ IS_BOOLEAN_TYPE(type)
    /\ id # "main"
    /\ ~IS_CALLABLE_TYPE(type)

\* the table of the current scope becomes ht; a table that rehash freed and
\* did not get back leaves the process reading freed memory
store_table(S, ht) ==
    [S EXCEPT !.tabs[S.table] = ht,
              !.err = IF ht.freed THEN Undefined ELSE @]

\* insert_name after ht_insert returned ins; type is prop->type
insert_name_inserted(S1, ins, type) ==
    IF ins.rc = EXIT_SUCCESS
    THEN [s |-> store_table(S1, ins.ht), ret |-> TRUE]
    ELSE [s |-> IF IS_INTEGER_TYPE(type) \/ IS_BOOLEAN_TYPE(type)
                THEN [store_table(S1, ins.ht) EXCEPT !.curr_offset = @ - 1]
                ELSE store_table(S1, ins.ht),
          ret |-> FALSE]

\* insert_name after the offset assignment
insert_name_offset(S1, id, p, heap) ==
    insert_name_inserted(S1, ht_insert(S1.tabs[S1.table], id, p, heap),
                         S1.props[p].type)

\* What an IDprop reads as once its block was freed and taken by the
\* HTentry that ht_insert allocates next, a block of the same size: type and
\* nparams are the low halves of the pointers key and value, which have no
\* ValType bit set, the blocks being aligned; offset is the high half of
\* key, which is no offset of the program; params is next_ptr, NULL.
PtrLow == 16
PtrHigh == 21928
HTentryAsIDprop ==
    [type |-> PtrLow, offset |-> PtrHigh, nparams |-> PtrLow, params |-> <<>>]

\* free(idp) after find_name(id, &idp) returned FALSE with f: idp is the
\* block insert_name allocated or, when find_name met a variable of that
\* name in the enclosing scope, the IDprop of that variable
insert_name_free(S, f) ==
    IF f.prop = NULL THEN S ELSE [S EXCEPT !.props[f.prop] = HTentryAsIDprop]

\* insert_name advancing the counter before it stores the offset
insert_name_preincrement(S, id, p, heap) ==
    IF find_name(S, id).found
    THEN [s |-> [S EXCEPT !.err = abort_compile("ERR_MULTIPLE_DEFINITION", id)],
          ret |-> FALSE]
    ELSE insert_name_offset(
             IF TakesOffset(id, S.props[p].type)
             THEN [insert_name_free(S, find_name(S, id))
                     EXCEPT !.props[p].offset = S.curr_offset + 1,
                            !.curr_offset = @ + 1]
             ELSE insert_name_free(S, find_name(S, id)),
             id, p, heap)

insert_name(S, id, p, heap) ==
    IF find_name(S, id).found
    THEN [s |-> [S EXCEPT !.err = abort_compile("ERR_MULTIPLE_DEFINITION", id)],
          ret |-> FALSE]
    ELSE insert_name_offset(
             IF TakesOffset(id, S.props[p].type)
             THEN [insert_name_free(S, find_name(S, id))
                     EXCEPT !.props[p].offset = S.curr_offset,
                            !.curr_offset = @ + 1]
             ELSE insert_name_free(S, find_name(S, id)),
             id, p, heap)

\* open_subroutine after insert_name returned ins
open_subroutine_inserted(ins) ==
    IF ins.s.err # NoErr THEN ins
    ELSE IF ins.ret
    THEN [s |-> [ins.s EXCEPT !.saved_table = ins.s.table,
                              !.tabs = Append(@, ht_init),
                              !.table = Len(ins.s.tabs) + 1],
          ret |-> TRUE]
    ELSE ins

open_subroutine(S, id, p, heap) ==
    open_subroutine_inserted(insert_name([S EXCEPT !.curr_offset = 0], id, p, heap))

\* a close_subroutine that would restart the offsets
close_subroutine_resetting(S) == [S EXCEPT !.table = S.saved_table, !.curr_offset = 0]

\* a close_subroutine that would leave the subroutine's table current
close_subroutine_leaving(S) == S

close_subroutine(S) == [S EXCEPT !.table = S.saved_table]

get_variables_width(S) == S.curr_offset

reset_offset(S) == [S EXCEPT !.curr_offset = 0]

return_curr_offset(S) == S.curr_offset

init_symbol_table ==
    [ props |-> <<>>, tabs |-> <<ht_init>>, table |-> 1,
      saved_table |-> NULL, curr_offset |-> 0, err |-> NoErr ]

\* the heap outcomes an insertion into the current scope can meet
HeapChoices(S) ==
    IF NeedsRehash(S.tabs[S.table]) THEN HeapOutcomes ELSE {"reused"}

\* the state after init_symbol_table
SetSymTabInit ==
    /\ props = init_symbol_table.props
    /\ tabs = init_symbol_table.tabs
    /\ table = init_symbol_table.table
    /\ saved_table = init_symbol_table.saved_table
    /\ curr_offset = init_symbol_table.curr_offset
    /\ err = init_symbol_table.err

\* the state takes the symbol table S
SetSymTab(S) ==
    /\ props' = S.props
    /\ tabs' = S.tabs
    /\ table' = S.table
    /\ saved_table' = S.saved_table
    /\ curr_offset' = S.curr_offset
    /\ err' = S.err

(***************************************************************************)
(* testsymboltable.c: the interactive driver of the symbol table, one      *)
(* action per command of its read loop.                                    *)
(***************************************************************************)
\* the identifiers typed at the prompt; "a" and "n" share a bucket
DriverNames == {"a", "n", "main"}

\* The driver sets type, nparams and params of a malloc'ed IDprop and leaves
\* offset as the block holds it: zero for a fresh block, and what the
\* allocator left there when the block was freed before.
UninitOffsets == {0, 5}

Outcome(cmd, id, ret, prop, msg) ==
    [cmd |-> cmd, id |-> id, ret |-> ret, prop |-> prop, msg |-> msg]

DriverRunning == err = NoErr /\ out.cmd # "quit"

CmdOpen(id) ==
    /\ DriverRunning
    /\ IF ~main_is_active
       THEN /\ out' = Outcome("open", id, FALSE, NULL,
                              "Already in subroutine ... not added.")
            /\ UNCHANGED <<props, tabs, table, saved_table, curr_offset, err,
                           main_is_active>>
       ELSE /\ Len(props) < MaxProps
            /\ \E off \in UninitOffsets, heap \in HeapChoices(SymTab) :
                 LET propts == [ type |-> BitOr(TYPE_CALLABLE, TYPE_INTEGER),
                                 offset |-> off, nparams |-> 0, params |-> <<>> ]
                     S0 == [SymTab EXCEPT !.props = Append(@, propts)]
                     r == open_subroutine(S0, id, Len(S0.props), heap)
                 IN  IF r.s.err # NoErr
                     THEN /\ SetSymTab(r.s)
                          /\ out' = Outcome("open", id, FALSE, NULL, "")
                          /\ UNCHANGED main_is_active
                     ELSE IF r.ret
                     THEN /\ SetSymTab(r.s)
                          /\ main_is_active' = FALSE
                          /\ out' = Outcome("open", id, TRUE, Len(S0.props), "")
                     ELSE /\ SetSymTab([r.s EXCEPT !.props = SubSeq(@, 1, Len(@) - 1)])
                          /\ out' = Outcome("open", id, FALSE, NULL,
                                            "Subroutine already exists ... not added.")
                          /\ UNCHANGED main_is_active

CmdClose ==
    /\ DriverRunning
    /\ IF main_is_active
       THEN /\ out' = Outcome("close", "", FALSE, NULL, "Cannot close main routine.")
            /\ UNCHANGED <<props, tabs, table, saved_table, curr_offset, err,
                           main_is_active>>
       ELSE /\ SetSymTab(close_subroutine(SymTab))
            /\ main_is_active' = TRUE
            /\ out' = Outcome("close", "", TRUE, NULL, "")

CmdInsert(id) ==
    /\ DriverRunning
    /\ Len(props) < MaxProps
    /\ \E off \in UninitOffsets, heap \in HeapChoices(SymTab) :
         LET propts == [ type |-> TYPE_INTEGER, offset |-> off,
                         nparams |-> 0, params |-> <<>> ]
             S0 == [SymTab EXCEPT !.props = Append(@, propts)]
             r == insert_name(S0, id, Len(S0.props), heap)
         IN  IF r.s.err # NoErr
             THEN /\ SetSymTab(r.s)
                  /\ out' = Outcome("insert", id, FALSE, NULL, "")
             ELSE IF r.ret
             THEN /\ SetSymTab(r.s)
                  /\ out' = Outcome("insert", id, TRUE, Len(S0.props), "")
             ELSE /\ SetSymTab([r.s EXCEPT !.props = SubSeq(@, 1, Len(@) - 1)])
                  /\ out' = Outcome("insert", id, FALSE, NULL,
                                    "Identifier already exists ... not added.")
    /\ UNCHANGED main_is_active

CmdFind(id) ==
    /\ DriverRunning
    /\ LET r == find_name(SymTab, id)
       IN  out' = IF r.found
                  THEN Outcome("find", id, TRUE, r.prop, "at offset")
                  ELSE Outcome("find", id, FALSE, NULL, "Identifier not found.")
    /\ UNCHANGED <<props, tabs, table, saved_table, curr_offset, err, main_is_active>>

CmdQuit ==
    /\ DriverRunning
    /\ IF ~main_is_active
       THEN /\ SetSymTab(close_subroutine(SymTab))
            /\ out' = Outcome("quit", "", TRUE, NULL, "Closed subroutine.")
       ELSE /\ out' = Outcome("quit", "", TRUE, NULL, "")
            /\ UNCHANGED <<props, tabs, table, saved_table, curr_offset, err>>
    /\ UNCHANGED main_is_active

(***************************************************************************)
(* scanner.c.  The source file is a sequence of characters, each a string  *)
(* of length one; the scanner's globals are the fields of one record.      *)
(* leprintf (error.c) prints the global position with the message and ends *)
(* the process: every operator below returns a failed scanner as it is.    *)
(* The record also keeps what the scanner does not: the whole text, the    *)
(* number of characters read from it, where the token that get_token is    *)
(* scanning started, and the number of tokens handed out.                  *)
(***************************************************************************)

\* what getc returns at the end of the file
EOF == "EOF"

\* the value of the static int ch before init_scanner
NUL == "NUL"

INT_MAX == 2147483647

MAX_ID_LENGTH == 32

Digits == <<"0", "1", "2", "3", "4", "5", "6", "7", "8", "9">>

\* the letters of the model's texts
Letters == <<"a", "b", "c", "d", "e", "f", "g", "h", "i", "j", "k", "l", "m", "n", "o", "p", "q", "r", "s", "t", "u", "v", "w", "x", "y", "z">>

isdigit(c) == \E i \in 1..Len(Digits) : Digits[i] = c

isalpha(c) == \E i \in 1..Len(Letters) : Letters[i] = c

isspace(c) == c \in {" ", "\t", "\n"}

\* ch - '0' for a digit
DigitValue(c) == (CHOOSE i \in 1..Len(Digits) : Digits[i] = c) - 1

\* the ASCII code of a character of a word
CharCode(c) ==
    IF isdigit(c) THEN 48 + DigitValue(c)
    ELSE IF c = "_" THEN 95
    ELSE 96 + (CHOOSE i \in 1..Len(Letters) : Letters[i] = c)

reserved ==
    << [word |-> <<"a", "n", "d">>, type |-> "TOK_AND"],
       [word |-> <<"a", "r", "r", "a", "y">>, type |-> "TOK_ARRAY"],
       [word |-> <<"a", "s">>, type |-> "TOK_AS"],
       [word |-> <<"b", "a", "c", "k">>, type |-> "TOK_BACK"],
       [word |-> <<"b", "o", "o", "l", "e", "a", "n">>, type |-> "TOK_BOOLEAN"],
       [word |-> <<"c", "h", "i", "l", "l", "a", "x">>, type |-> "TOK_CHILLAX"],
       [word |-> <<"d", "o">>, type |-> "TOK_DO"],
       [word |-> <<"e", "l", "i", "f">>, type |-> "TOK_ELIF"],
       [word |-> <<"e", "l", "s", "e">>, type |-> "TOK_ELSE"],
       [word |-> <<"e", "n", "d">>, type |-> "TOK_END"],
       [word |-> <<"f", "a", "l", "s", "e">>, type |-> "TOK_FALSE"],
       [word |-> <<"i", "f">>, type |-> "TOK_IF"],
       [word |-> <<"i", "n", "p", "u", "t">>, type |-> "TOK_INPUT"],
       [word |-> <<"i", "n", "t", "e", "g", "e", "r">>, type |-> "TOK_INTEGER"],
       [word |-> <<"l", "e", "t">>, type |-> "TOK_LET"],
       [word |-> <<"m", "a", "i", "n">>, type |-> "TOK_MAIN"],
       [word |-> <<"m", "o", "d">>, type |-> "TOK_MOD"],
       [word |-> <<"n", "o", "t">>, type |-> "TOK_NOT"],
       [word |-> <<"o", "r">>, type |-> "TOK_OR"],
       [word |-> <<"o", "u", "t", "p", "u", "t">>, type |-> "TOK_OUTPUT"],
       [word |-> <<"p", "r", "o", "g", "r", "a", "m">>, type |-> "TOK_PROGRAM"],
       [word |-> <<"r", "e", "t", "u", "r", "n", "s">>, type |-> "TOK_RETURNS"],
       [word |-> <<"t", "a", "k", "e", "s">>, type |-> "TOK_TAKES"],
       [word |-> <<"t", "r", "u", "e">>, type |-> "TOK_TRUE"],
       [word |-> <<"v", "a", "r", "s">>, type |-> "TOK_VARS"],
       [word |-> <<"w", "h", "i", "l", "e">>, type |-> "TOK_WHILE"] >>

NUM_RESERVED_WORDS == Len(reserved)

\* the token of amplc.c, a zeroed global.  The members of its union are
\* kept apart: each holds what was last written to it.
NoToken == [type |-> "TOK_EOF", value |-> 0, lexeme |-> <<>>, string |-> <<>>]

NoScanErr == [msg |-> "", arg |-> "", line |-> 0, col |-> 0]

\* the scanner before init_scanner
ScannerIdle ==
    [ src_file |-> <<>>, ch |-> NUL, column_number |-> 0,
      position |-> [line |-> 0, col |-> 0], token |-> NoToken,
      error |-> NoScanErr, text |-> <<>>, nread |-> 0,
      token_start |-> [line |-> 0, col |-> 0, index |-> 0], ntokens |-> 0 ]

leprintf(sc, msg, arg) ==
    [sc EXCEPT !.error = [msg |-> msg, arg |-> arg,
                          line |-> sc.position.line, col |-> sc.position.col]]

failed(sc) == sc.error.msg # ""

next_char(sc) ==
    LET last_read == sc.ch
        got == IF sc.src_file = <<>>
               THEN [sc EXCEPT !.ch = EOF]
               ELSE [sc EXCEPT !.ch = Head(sc.src_file),
                               !.src_file = Tail(sc.src_file),
                               !.nread = @ + 1]
    IN  IF last_read = "\n"
        THEN [got EXCEPT !.position = [line |-> sc.position.line + 1, col |-> 0],
                         !.column_number = 0]
        ELSE [got EXCEPT !.position.col = @ + 1, !.column_number = @ + 1]

init_scanner(in_file) ==
    next_char([ScannerIdle EXCEPT !.src_file = in_file, !.text = in_file,
                                  !.position = [line |-> 1, col |-> 0],
                                  !.column_number = 0])

\* process_number with a test that also refuses the digit that reaches
\* INT_MAX exactly
RECURSIVE number_digits_early(_)
number_digits_early(sc) ==
    IF ~isdigit(sc.ch) THEN sc
    ELSE IF sc.token.value >= (INT_MAX - DigitValue(sc.ch)) \div 10
    THEN leprintf(sc, "number too large", "")
    ELSE number_digits_early(
             next_char([sc EXCEPT !.token.value = @ * 10 + DigitValue(sc.ch)]))

\* the while loop of process_number
RECURSIVE number_digits(_)
number_digits(sc) ==
    IF ~isdigit(sc.ch) THEN sc
    ELSE IF sc.token.value > (INT_MAX - DigitValue(sc.ch)) \div 10
    THEN leprintf(sc, "number too large", "")
    ELSE number_digits(
             next_char([sc EXCEPT !.token.value = @ * 10 + DigitValue(sc.ch)]))

process_number(sc) ==
    LET first == next_char([sc EXCEPT !.token.value = DigitValue(sc.ch),
                                      !.token.type = "TOK_NUM"])
        done == number_digits(first)
    IN  IF failed(done) THEN done
        ELSE IF isalpha(done.ch) \/ done.ch = "_"
        THEN leprintf(done, "illegal character", done.ch)
        ELSE done

\* the while loop of process_string: cp holds the characters stored so far
\* and i is their number.  Strings stay below MAX_INITIAL_STRING_LEN, so
\* the buffer is never reallocated.
RECURSIVE string_chars(_, _)
string_chars(sc, cp) ==
    IF sc.ch = "\"" \/ sc.ch = EOF THEN [sc |-> sc, cp |-> cp]
    ELSE IF sc.ch = "\t"
    THEN [sc |-> leprintf(sc, "non-printable character", sc.ch), cp |-> cp]
    ELSE LET i == Len(cp)
             stored == Append(cp, sc.ch)
             after == next_char(sc)
         IN  IF i >= 1 /\ stored[i + 1] = "\\"
             THEN IF after.ch \notin {"n", "t", "\"", "\\"}
                  THEN [sc |-> leprintf([after EXCEPT !.position.col = @ - 1],
                                        "illegal escape code", after.ch),
                        cp |-> stored]
                  ELSE string_chars(next_char(after), Append(stored, after.ch))
             ELSE string_chars(after, stored)

process_string(sc) ==
    LET start_col == sc.position.col - 1
        start_line == sc.position.line - 1
        r == string_chars(sc, <<>>)
    IN  IF failed(r.sc) THEN r.sc
        ELSE IF r.sc.ch = EOF
        THEN leprintf([r.sc EXCEPT !.position = [line |-> start_line,
                                                 col |-> start_col]],
                      "string not closed", "")
        ELSE [r.sc EXCEPT !.token.string = r.cp, !.token.type = "TOK_STR"]

\* the while loop of process_word; i is the length of the lexeme so far.
\* For i = 0 the test on '_' reads the byte before the lexeme, a padding
\* byte of the zeroed token, which is no digit.
RECURSIVE word_chars(_)
word_chars(sc) ==
    IF ~(isdigit(sc.ch) \/ isalpha(sc.ch) \/ sc.ch = "_") THEN sc
    ELSE LET i == Len(sc.token.lexeme)
         IN  IF i < MAX_ID_LENGTH
             THEN IF sc.ch = "_" /\ i >= 1 /\ isdigit(sc.token.lexeme[i])
                  THEN leprintf(sc, "'_' not allowed after digit in identifier", "")
                  ELSE word_chars(next_char([sc EXCEPT !.token.lexeme =
                                                           Append(@, sc.ch)]))
             ELSE leprintf(sc, "identifier too long", "")

RECURSIVE strcmp(_, _)
strcmp(s, t) ==
    IF s = <<>> /\ t = <<>> THEN 0
    ELSE IF s = <<>> THEN -1
    ELSE IF t = <<>> THEN 1
    ELSE IF CharCode(Head(s)) < CharCode(Head(t)) THEN -1
    ELSE IF CharCode(Head(s)) > CharCode(Head(t)) THEN 1
    ELSE strcmp(Tail(s), Tail(t))

\* the binary search of process_word with the word at mid tested before
\* the halving instead of after it
RECURSIVE reserved_search_before(_, _, _, _)
reserved_search_before(lexeme, low, mid, high) ==
    IF high - low > 1
    THEN LET cmp == strcmp(lexeme, reserved[mid + 1].word)
             high1 == IF cmp < 0 THEN mid ELSE high
             low1 == IF cmp > 0 THEN mid ELSE low
             mid1 == IF cmp # 0 THEN (high1 + low1) \div 2 ELSE mid
         IN  IF cmp = 0
             THEN reserved[mid + 1].type
             ELSE reserved_search_before(lexeme, low1, mid1, high1)
    ELSE "TOK_ID"

\* the binary search of process_word, entered with
\* cmp = strcmp(lexeme, reserved[mid].word); the table is indexed from 1
RECURSIVE reserved_search(_, _, _, _)
reserved_search(lexeme, low, mid, high) ==
    IF high - low > 1
    THEN LET cmp == strcmp(lexeme, reserved[mid + 1].word)
             high1 == IF cmp < 0 THEN mid ELSE high
             low1 == IF cmp > 0 THEN mid ELSE low
             mid1 == IF cmp # 0 THEN (high1 + low1) \div 2 ELSE mid
         IN  IF strcmp(lexeme, reserved[mid1 + 1].word) = 0
             THEN reserved[mid1 + 1].type
             ELSE reserved_search(lexeme, low1, mid1, high1)
    ELSE "TOK_ID"

process_word(sc) ==
    LET begun == [sc EXCEPT !.position.col = sc.column_number,
                            !.token.type = "TOK_ID", !.token.lexeme = <<>>]
        done == word_chars(begun)
    IN  IF failed(done) THEN done
        ELSE IF done.ch = "^"
        THEN leprintf(done, "illegal character in identifier", done.ch)
        ELSE [done EXCEPT !.token.type =
                 reserved_search(done.token.lexeme, 0,
                                 (NUM_RESERVED_WORDS + 0) \div 2,
                                 NUM_RESERVED_WORDS)]

RECURSIVE skip_comment(_)
\* the while loop of skip_comment
RECURSIVE comment_chars(_, _)
comment_chars(sc, start_pos) ==
    IF failed(sc) \/ sc.ch = "}" THEN sc
    ELSE IF sc.ch = "{" THEN comment_chars(skip_comment(next_char(sc)), start_pos)
    ELSE IF sc.ch = EOF
    THEN leprintf([sc EXCEPT !.position = start_pos], "comment not closed", "")
    ELSE comment_chars(next_char(sc), start_pos)

skip_comment(sc) ==
    LET start_pos == [line |-> sc.position.line, col |-> sc.position.col]
        done == comment_chars(sc, start_pos)
    IN  IF failed(done) THEN done ELSE next_char(done)

\* the tokens of one character
OneCharTokens ==
    { <<"=", "TOK_EQ">>, <<"-", "TOK_MINUS">>, <<"+", "TOK_PLUS">>,
      <<"%", "TOK_MOD">>, <<"*", "TOK_MUL">>, <<"(", "TOK_LPAR">>,
      <<")", "TOK_RPAR">>, <<"&", "TOK_CAT">>, <<",", "TOK_COMMA">>,
      <<":", "TOK_COLON">>, <<";", "TOK_SEMICOLON">>, <<"[", "TOK_LBRACK">>,
      <<"]", "TOK_RBRACK">> }

\* the tokens that a following '=' turns into another
TwoCharTokens ==
    { <<">", "TOK_GT", "TOK_GE">>, <<"<", "TOK_LT", "TOK_LE">>,
      <<"/", "TOK_DIV", "TOK_NE">> }

RECURSIVE skip_whitespace(_)
skip_whitespace(sc) ==
    IF isspace(sc.ch) THEN skip_whitespace(next_char(sc)) ELSE sc

\* get_token of scanner.c (get_token below is the parser's call of it)
RECURSIVE scanner_get_token(_)
scanner_get_token(sc0) ==
    LET w == skip_whitespace(sc0)
        sc == [w EXCEPT !.position.col = w.column_number,
                        !.token_start = [line |-> w.position.line,
                                         col |-> w.column_number,
                                         index |-> IF w.ch = EOF
                                                   THEN w.nread + 1
                                                   ELSE w.nread]]
    IN  IF sc.ch = EOF THEN [sc EXCEPT !.token.type = "TOK_EOF"]
        ELSE IF isalpha(sc.ch) \/ sc.ch = "_" THEN process_word(sc)
        ELSE IF isdigit(sc.ch) THEN process_number(sc)
        ELSE IF sc.ch = "\""
        THEN LET s == process_string(next_char(sc))
             IN  IF failed(s) THEN s ELSE next_char(s)
        ELSE IF sc.ch = "{"
        THEN LET n == next_char(sc)
                 s == skip_comment([n EXCEPT !.position.col = @ - 1])
             IN  IF failed(s) THEN s ELSE scanner_get_token(s)
        ELSE IF \E p \in OneCharTokens : p[1] = sc.ch
        THEN LET p == CHOOSE p \in OneCharTokens : p[1] = sc.ch
             IN  next_char([sc EXCEPT !.token.type = p[2]])
        ELSE IF \E p \in TwoCharTokens : p[1] = sc.ch
        THEN LET p == CHOOSE p \in TwoCharTokens : p[1] = sc.ch
                 n == next_char([sc EXCEPT !.token.type = p[2]])
             IN  IF n.ch = "=" THEN next_char([n EXCEPT !.token.type = p[3]])
                 ELSE n
        ELSE leprintf(sc, "illegal character", sc.ch)

\* the variables of the compiler, which the driver never touches
pvars == <<pc, in_main, return_type, is_assign, stack_depth, max_stack_depth,
           is_if_or_while, code, nlabels, nfuncs, nstmts, last, scanner>>

vars == <<props, tabs, table, saved_table, curr_offset, err, main_is_active, out,
          pc, in_main, return_type, is_assign, stack_depth, max_stack_depth,
          is_if_or_while, code, nlabels, nfuncs, nstmts, last, scanner>>

\* nothing parsed yet
NoInput ==
    [ kind |-> "none", key |-> "", ids |-> <<>>, types |-> <<>>, toks |-> <<>>,
      needs |-> {}, ret |-> -1, ok |-> FALSE, opened |-> -1,
      call |-> [form |-> "none", f |-> "", nargs |-> 0], rest |-> <<>>,
      valid |-> TRUE ]

\* the globals of amplc.c as the loader leaves them
ParserIdle ==
    /\ pc = "program"
    /\ in_main = FALSE
    /\ return_type = TYPE_NONE
    /\ is_assign = 0
    /\ stack_depth = 0
    /\ max_stack_depth = 0
    /\ is_if_or_while = 0
    /\ code = <<>>
    /\ nlabels = 0
    /\ nfuncs = 0
    /\ nstmts = 0
    /\ last = NoInput

DriverInit ==
    /\ SetSymTabInit
    /\ main_is_active = TRUE
    /\ out = Outcome("none", "", FALSE, NULL, "")
    /\ ParserIdle
    /\ scanner = ScannerIdle

DriverNext ==
    \/ (\E id \in DriverNames : CmdOpen(id)) /\ UNCHANGED pvars
    \/ CmdClose /\ UNCHANGED pvars
    \/ (\E id \in DriverNames : CmdInsert(id)) /\ UNCHANGED pvars
    \/ (\E id \in DriverNames : CmdFind(id)) /\ UNCHANGED pvars
    \/ CmdQuit /\ UNCHANGED pvars

SpecDriver == DriverInit /\ [][DriverNext]_vars

(***************************************************************************)
(* amplc.c: tokens.  The scanner hands the parser one token at a time; the *)
(* tokens of the construct being parsed are the sequence toks, and the     *)
(* token that follows the construct (";" or "end") starts no expression    *)
(* and is no operator.                                                     *)
(***************************************************************************)
T(type) == [type |-> type, lexeme |-> "", value |-> 0]
Id(lexeme) == [type |-> "TOK_ID", lexeme |-> lexeme, value |-> 0]
Num(value) == [type |-> "TOK_NUM", lexeme |-> "", value |-> value]
Str(string) == [type |-> "TOK_STR", lexeme |-> string, value |-> 0]

STARTS_FACTOR(toktype) ==
    toktype \in {"TOK_ID", "TOK_NUM", "TOK_LPAR", "TOK_NOT", "TOK_TRUE", "TOK_FALSE"}
STARTS_EXPR(toktype) == toktype = "TOK_MINUS" \/ STARTS_FACTOR(toktype)
IS_ADDOP(toktype) == toktype \in {"TOK_MINUS", "TOK_OR", "TOK_PLUS"}
IS_MULOP(toktype) == toktype \in {"TOK_AND", "TOK_DIV", "TOK_MUL", "TOK_MOD"}
IS_RELOP(toktype) ==
    toktype \in {"TOK_EQ", "TOK_GE", "TOK_GT", "TOK_LE", "TOK_LT", "TOK_NE"}

(***************************************************************************)
(* The parser's globals as one value c, threaded through the parse         *)
(* functions: the tokens still to read, the symbol table, return_type,     *)
(* is_assign, stack_depth, max_stack_depth, is_if_or_while, the calls made *)
(* into the code generator (code) and the number of labels handed out.     *)
(* c.ty is the ValType a parse function leaves in its out parameter.       *)
(* Once the process has failed, every parse function returns at once.      *)
(***************************************************************************)
Failed(c) == c.sym.err # NoErr
Fail(c, e) == [c EXCEPT !.sym.err = e]

\* the lookahead token
Tok(c) == IF c.toks = <<>> THEN T("TOK_EOF") ELSE Head(c.toks)

get_token(c) == IF c.toks = <<>> THEN c ELSE [c EXCEPT !.toks = Tail(@)]

\* abort_compile(ERR_EXPECT, type) and the token-typed errors
abort_expect(kind, toktype) ==
    [kind |-> kind, id |-> toktype, found |-> 0, expected |-> 0, msg |-> ""]

expect(c, type) ==
    IF Failed(c) THEN c
    ELSE IF Tok(c).type = type THEN get_token(c)
    ELSE Fail(c, abort_expect("ERR_EXPECT", type))

\* check_types with found # expected: leprintf ends the process
incompatible_types(found, expected, msg, id) ==
    [ kind |-> "incompatible types", id |-> id, found |-> found,
      expected |-> expected, msg |-> msg ]

check_types(c, found, expected, msg, id) ==
    IF Failed(c) \/ found = expected THEN c
    ELSE Fail(c, incompatible_types(found, expected, msg, id))

\* calls into the code generator, in program order
Gen(c, fn, op, arg, name) ==
    IF Failed(c) THEN c
    ELSE [c EXCEPT !.code = Append(@, [fn |-> fn, op |-> op, arg |-> arg,
                                        name |-> name])]

gen_1(c, op) == Gen(c, "gen_1", op, 0, "")
gen_2(c, op, arg) == Gen(c, "gen_2", op, arg, "")
gen_2_label(c, op, label) == Gen(c, "gen_2_label", op, label, "")
gen_label(c, label) == Gen(c, "gen_label", "", label, "")
gen_cmp(c, op) == Gen(c, "gen_cmp", op, 0, "")
gen_call(c, key) == Gen(c, "gen_call", "", 0, key)
gen_print(c, type) == Gen(c, "gen_print", "", type, "")
gen_print_string(c, string) == Gen(c, "gen_print_string", "", 0, string)
gen_newarray(c) == Gen(c, "gen_newarray", "T_INT", 0, "")

inc_stack_depth(c) ==
    IF Failed(c) THEN c
    ELSE LET d == c.stack_depth + 1
         IN  [c EXCEPT !.stack_depth = d,
                       !.max_stack_depth = IF d > @ THEN d ELSE @]

dec_stack_depth(c) ==
    IF Failed(c) THEN c ELSE [c EXCEPT !.stack_depth = @ - 1]

SetTy(c, type) == IF Failed(c) THEN c ELSE [c EXCEPT !.ty = type]

\* type with the TYPE_CALLABLE bit cleared: TYPE_CALLABLE ^ (TYPE_CALLABLE | type)
MaskCallable(type) == BitXor(TYPE_CALLABLE, BitOr(TYPE_CALLABLE, type))

(***************************************************************************)
(* amplc.c: the expression productions.  parse_x(c, type) is the call      *)
(* parse_x(&t) with t = type on entry; the result's ty is t on return.     *)
(* A function whose locals outlive a call is written as the chain of its   *)
(* parts, each part taking the result of the call before it.               *)
(***************************************************************************)
RECURSIVE parse_expr(_, _)
RECURSIVE parse_simple(_, _)
RECURSIVE parse_term(_, _)
RECURSIVE parse_factor(_, _)
RECURSIVE simple_addops(_, _, _)
RECURSIVE term_mulops(_, _, _, _)
RECURSIVE factor_call_args(_, _, _, _)
RECURSIVE factor_expr_list(_)

\* idp->params[i]; a read past the array is undefined
ParamAt(idp, i) == IF i + 1 \in DOMAIN idp.params THEN idp.params[i + 1] ELSE -1

\* check_types of the type the last parse function left
CheckTy(c, expected, msg, id) == check_types(c, c.ty, expected, msg, id)

\* check_types(type, idp->params[i]) for the argument just parsed
CheckParam(c, idp, i) ==
    IF Failed(c) THEN c
    ELSE IF i + 1 \notin DOMAIN idp.params THEN Fail(c, Undefined)
    ELSE CheckTy(c, ParamAt(idp, i), "", "")

RelopCmp(relop) ==
    CASE relop = "TOK_GE" -> "JVM_IF_ICMPGE"
      [] relop = "TOK_GT" -> "JVM_IF_ICMPGT"
      [] relop = "TOK_LE" -> "JVM_IF_ICMPLE"
      [] relop = "TOK_LT" -> "JVM_IF_ICMPLT"

\* if (is_if_or_while == 1) gen_cmp(op)
gen_cmp_in_guard(c, op) ==
    IF Failed(c) \/ c.is_if_or_while # 1 THEN c ELSE gen_cmp(c, op)

\* parse_expr, "=" and "#": c2 is the state after the second simple, whose
\* type is checked against type1; the comparison is chosen by the token that
\* follows the second simple
expr_equality(c2, type1) ==
    SetTy(gen_cmp_in_guard(CheckTy(c2, type1, "", ""),
                           IF Tok(c2).type = "TOK_EQ" THEN "JVM_IF_ICMPEQ"
                           ELSE "JVM_IF_ICMPNE"),
          TYPE_BOOLEAN)

\* parse_expr, the ordering operators: c3 is the state after the second simple
expr_ordering(c3, relop) ==
    SetTy(gen_cmp_in_guard(CheckTy(c3, TYPE_INTEGER, "", ""), RelopCmp(relop)),
          TYPE_BOOLEAN)

\* parse_expr after the first simple, whose type c1.ty is type1
expr_relop(c1) ==
    IF Failed(c1) \/ ~IS_RELOP(Tok(c1).type) THEN c1
    ELSE IF Tok(c1).type \in {"TOK_EQ", "TOK_NE"}
    THEN expr_equality(parse_simple(get_token(c1), 0), c1.ty)
    ELSE expr_ordering(
             parse_simple(get_token(
                 IF c1.ty # TYPE_INTEGER
                    /\ BitXor(c1.ty, TYPE_CALLABLE) # TYPE_INTEGER
                 THEN CheckTy(c1, TYPE_INTEGER, "", "")
                 ELSE c1), 0),
             Tok(c1).type)

\* expr = simple [ relop simple ]
parse_expr(c, type) ==
    IF Failed(c) THEN c
    ELSE expr_relop(parse_simple(c, IF IS_ARRAY(type) THEN type ELSE 0))

\* the second operand of an arithmetic operator: no array, and an integer
arith_operand(c2, temp_tok) ==
    IF Failed(c2) THEN c2
    ELSE IF IS_ARRAY(c2.ty)
    THEN Fail(c2, abort_expect("ERR_ILLEGAL_ARRAY_OPERATION", temp_tok))
    ELSE CheckTy(c2, TYPE_INTEGER, "", "")

\* the code of "+" and "-"
gen_addop(c3, temp_tok) ==
    IF temp_tok = "TOK_PLUS"
    THEN gen_1(dec_stack_depth(c3), "JVM_IADD")
    ELSE gen_1(gen_1(dec_stack_depth(c3), "JVM_INEG"), "JVM_IADD")

\* the loop of parse_simple; ty is *type, type1 the type of the first term
simple_addops(c, ty, type1) ==
    IF Failed(c) THEN c
    ELSE IF ~IS_ADDOP(Tok(c).type) THEN SetTy(c, ty)
    ELSE IF IS_ARRAY(ty)
    THEN Fail(c, abort_expect("ERR_ILLEGAL_ARRAY_OPERATION", Tok(c).type))
    ELSE IF Tok(c).type \in {"TOK_PLUS", "TOK_MINUS"}
    THEN IF IS_ARRAY(type1)
         THEN Fail(c, abort_expect("ERR_ILLEGAL_ARRAY_OPERATION", Tok(c).type))
         ELSE simple_addops(
                  gen_addop(arith_operand(
                                parse_term(get_token(check_types(
                                    c, type1, TYPE_INTEGER, "", "")), 0),
                                Tok(c).type),
                            Tok(c).type),
                  type1, type1)
    ELSE simple_addops(
             gen_1(CheckTy(parse_term(get_token(check_types(
                               c, type1, TYPE_BOOLEAN, "", "")), 0),
                           TYPE_BOOLEAN, "", ""),
                   "JVM_IOR"),
             type1, type1)

\* parse_simple after the first term, whose type c1.ty is type1; ty0 is
\* *type as the sign left it
simple_first(c1, ty0) ==
    simple_addops(IF Failed(c1) \/ ty0 # TYPE_INTEGER THEN c1
                  ELSE IF IS_ARRAY(c1.ty)
                  THEN Fail(c1, abort_expect("ERR_ILLEGAL_ARRAY_OPERATION",
                                             "TOK_MINUS"))
                  ELSE CheckTy(c1, TYPE_INTEGER, "", ""),
                  IF ~IS_ADDOP(Tok(c1).type) THEN c1.ty ELSE ty0,
                  c1.ty)

\* simple = [ "-" ] term { addop term }
parse_simple(c, type) ==
    IF Failed(c) THEN c
    ELSE simple_first(
             parse_term(IF Tok(c).type = "TOK_MINUS"
                        THEN expect(c, "TOK_MINUS") ELSE c, 0),
             IF Tok(c).type = "TOK_MINUS" THEN TYPE_INTEGER ELSE type)

\* the code of "*", "/" and "rem"
gen_mulop(c3, temp_tok) ==
    gen_1(dec_stack_depth(c3),
          CASE temp_tok = "TOK_MUL" -> "JVM_IMUL"
            [] temp_tok = "TOK_DIV" -> "JVM_IDIV"
            [] temp_tok = "TOK_MOD" -> "JVM_IREM")

\* parse_term after the factor that follows an arithmetic operator
mulop_arith(c2, temp_tok, type1) ==
    term_mulops(gen_mulop(arith_operand(c2, temp_tok), temp_tok),
                type1, type1, c2.ty)

\* parse_term after the factor that follows "and"
mulop_and(c2, type1) ==
    term_mulops(gen_1(CheckTy(c2, TYPE_BOOLEAN, "", ""), "JVM_IAND"),
                type1, type1, c2.ty)

\* the loop of parse_term; ty is *type, type2 what the last factor left
term_mulops(c, ty, type1, type2) ==
    IF Failed(c) THEN c
    ELSE IF ~IS_MULOP(Tok(c).type) THEN SetTy(c, ty)
    ELSE IF Tok(c).type \in {"TOK_MUL", "TOK_DIV", "TOK_MOD"}
    THEN IF IS_ARRAY(type1)
         THEN Fail(c, abort_expect("ERR_ILLEGAL_ARRAY_OPERATION", Tok(c).type))
         ELSE mulop_arith(
                  parse_factor(check_types(get_token(c), type1, TYPE_INTEGER,
                                           "", ""), type2),
                  Tok(c).type, type1)
    ELSE mulop_and(
             parse_factor(get_token(check_types(c, type1, TYPE_BOOLEAN, "", "")),
                          type2),
             type1)

\* parse_term after the first factor, whose type c1.ty is type1
term_first(c1, type) ==
    IF Failed(c1) THEN c1
    ELSE term_mulops(c1, IF ~IS_MULOP(Tok(c1).type) THEN c1.ty ELSE type,
                     c1.ty, 0)

\* term = factor { mulop factor }
parse_term(c, type) ==
    IF Failed(c) THEN c
    ELSE IF ~STARTS_FACTOR(Tok(c).type)
    THEN Fail(c, abort_expect("ERR_MISSING_FACTOR", "unspecified"))
    ELSE term_first(parse_factor(c, 0), type)

\* the argument loop of the call branch of parse_factor; c.ty is type_local
\* and the result's cp is current_param
factor_call_args(c, idp, key, current_param) ==
    IF Failed(c) THEN c
    ELSE IF ~(Tok(c).type = "TOK_COMMA" /\ current_param < idp.nparams)
    THEN [c EXCEPT !.cp = current_param]
    ELSE IF current_param + 1 = idp.nparams
    THEN Fail(c, abort_compile("ERR_TOO_MANY_ARGUMENTS", key))
    ELSE factor_call_args(
             CheckParam(parse_expr(get_token(c), c.ty), idp, current_param + 1),
             idp, key, current_param + 1)

\* the tests of current_param that follow the argument loop
factor_call_count(a3, idp, key) ==
    IF Failed(a3) THEN a3
    ELSE IF a3.cp < idp.nparams - 1
    THEN Fail(a3, abort_compile("ERR_TOO_FEW_ARGUMENTS", key))
    ELSE IF a3.cp # idp.nparams - 1
    THEN Fail(a3, abort_compile("ERR_TOO_MANY_ARGUMENTS", key))
    ELSE a3

\* the loop of the parenthesised branch of parse_factor; c.ty is type_local
factor_expr_list(c) ==
    IF Failed(c) THEN c
    ELSE IF Tok(c).type # "TOK_COMMA" THEN c
    ELSE factor_expr_list(parse_expr(expect(c, "TOK_COMMA"), c.ty))

\* the call branch of parse_factor, after "("
factor_call(c, idp, key) ==
    IF Failed(c) THEN c
    ELSE IF ~IS_FUNCTION(idp.type) /\ ~IS_PROCEDURE(idp.type)
    THEN Fail(c, abort_compile("ERR_NOT_A_FUNCTION", key))
    ELSE IF c.is_assign # 0 /\ IS_PROCEDURE(idp.type)
    THEN Fail(c, abort_compile("ERR_NOT_A_FUNCTION", key))
    ELSE gen_call(
             expect(SetTy(IF ~STARTS_EXPR(Tok(c).type) THEN c
                          ELSE factor_call_count(
                                   factor_call_args(
                                       CheckParam(parse_expr(c, 0), idp, 0),
                                       idp, key, 0),
                                   idp, key),
                          idp.type),
                    "TOK_RPAR"),
             key)

\* the index branch of parse_factor, after the index
factor_index(c2, idp, key) ==
    gen_1(gen_1(gen_2(
        SetTy(IF Failed(c2) THEN c2
              ELSE IF ~IS_ARRAY_TYPE(idp.type)
              THEN Fail(c2, abort_compile("ERR_NOT_AN_ARRAY", key))
              ELSE expect(c2, "TOK_RBRACK"),
              BitXor(idp.type, TYPE_ARRAY)),
        "JVM_ALOAD", idp.offset), "JVM_SWAP"), "JVM_IALOAD")

\* the identifier branch of parse_factor, after find_name found idp
factor_id(c1, idp, key) ==
    IF Tok(c1).type = "TOK_LBRACK"
    THEN factor_index(CheckTy(parse_simple(expect(c1, "TOK_LBRACK"), 0),
                              TYPE_INTEGER, "for array index of", key),
                      idp, key)
    ELSE IF Tok(c1).type = "TOK_LPAR"
    THEN factor_call(expect(c1, "TOK_LPAR"), idp, key)
    ELSE IF ~IS_VARIABLE(idp.type)
    THEN Fail(c1, abort_compile("ERR_NOT_A_VARIABLE", key))
    ELSE gen_2(SetTy(c1, idp.type), "JVM_ILOAD", idp.offset)

\* the parenthesised branch of parse_factor, after the first expr; *type is
\* written only when no "," follows
factor_paren(c1, type) ==
    expect(SetTy(factor_expr_list(c1),
                 IF Failed(c1) \/ Tok(c1).type # "TOK_COMMA" THEN c1.ty ELSE type),
           "TOK_RPAR")

\* factor = id [ "[" simple "]" | "(" expr { "," expr } ")" ] | num
\*        | "(" expr ")" | "not" factor | "true" | "false"
parse_factor(c, type) ==
    IF Failed(c) THEN c
    ELSE CASE Tok(c).type = "TOK_ID" ->
              IF ~find_name(c.sym, Tok(c).lexeme).found
              THEN Fail(get_token(c),
                        abort_compile("ERR_UNKNOWN_IDENTIFIER", Tok(c).lexeme))
              ELSE factor_id(get_token(c),
                             c.sym.props[find_name(c.sym, Tok(c).lexeme).prop],
                             Tok(c).lexeme)
           [] Tok(c).type = "TOK_LPAR" ->
              factor_paren(parse_expr(expect(c, "TOK_LPAR"), 0), type)
           [] Tok(c).type = "TOK_NUM" ->
              expect(gen_2(SetTy(inc_stack_depth(c), TYPE_INTEGER),
                           "JVM_LDC", Tok(c).value), "TOK_NUM")
           [] Tok(c).type = "TOK_NOT" ->
              CheckTy(parse_factor(expect(c, "TOK_NOT"), 0), TYPE_BOOLEAN, "", "")
           [] Tok(c).type = "TOK_TRUE" ->
              gen_2(inc_stack_depth(SetTy(expect(c, "TOK_TRUE"), TYPE_BOOLEAN)),
                    "JVM_LDC", 1)
           [] Tok(c).type = "TOK_FALSE" ->
              gen_2(inc_stack_depth(SetTy(expect(c, "TOK_FALSE"), TYPE_BOOLEAN)),
                    "JVM_LDC", 0)
           [] OTHER -> Fail(c, abort_expect("ERR_MISSING_FACTOR", Tok(c).type))

(***************************************************************************)
(* amplc.c: the statement productions.                                     *)
(***************************************************************************)
RECURSIVE parse_statements(_)
RECURSIVE parse_statement(_)
RECURSIVE statements_more(_)
RECURSIVE parse_if(_)
RECURSIVE if_elifs(_, _, _, _)
RECURSIVE parse_while(_)
RECURSIVE do_args(_, _, _, _)
RECURSIVE do_args_unchecked(_, _, _, _)
RECURSIVE output_more(_)

\* get_label(): a label no earlier call returned
get_label(c) == c.nlabels

TakeLabels(c, n) == IF Failed(c) THEN c ELSE [c EXCEPT !.nlabels = @ + n]

EndAssign(c) == IF Failed(c) THEN c ELSE [c EXCEPT !.is_assign = 0]

\* parse_assign after the expression, whose type e1.ty is type2
assign_expr(e1, idp, key, type1) ==
    IF Failed(e1) THEN e1
    ELSE IF type1 # 0
    THEN IF IS_ARRAY(e1.ty)
         THEN Fail(e1, abort_compile("ERR_ILLEGAL_INDEXED_ARRAY_ALLOCATION", key))
         ELSE gen_1(check_types(e1, MaskCallable(e1.ty),
                                BitXor(idp.type, TYPE_ARRAY),
                                "for array index of", key),
                    "JVM_IASTORE")
    ELSE dec_stack_depth(gen_2(
             check_types(e1,
                         IF IS_CALLABLE_TYPE(e1.ty)
                         THEN MaskCallable(e1.ty) ELSE e1.ty,
                         idp.type, "for assignment to", key),
             "JVM_ISTORE", idp.offset))

\* parse_assign after "=": type1 is the type of the index, 0 without one
assign_value(c, idp, key, type1) ==
    IF Failed(c) THEN c
    ELSE IF STARTS_EXPR(Tok(c).type)
    THEN assign_expr(parse_expr(c, -1), idp, key, type1)
    ELSE IF Tok(c).type = "TOK_ARRAY"
    THEN IF IS_ARRAY(idp.type) /\ IS_INTEGER_TYPE(type1)
         THEN Fail(c, abort_compile("ERR_ILLEGAL_INDEXED_ARRAY_ALLOCATION", key))
         ELSE gen_2(gen_newarray(CheckTy(parse_simple(expect(c, "TOK_ARRAY"), 0),
                                         TYPE_INTEGER, "for array index of", key)),
                    "JVM_ASTORE", idp.offset)
    ELSE Fail(c, abort_expect("ERR_MISSING_ARRAY_ALLOCATION_OR_EXPRESSION",
                              Tok(c).type))

\* parse_assign after "]": the type of the index c2.ty is type1
assign_indexed(c2, idp, key) ==
    EndAssign(assign_value(expect(c2, "TOK_EQ"), idp, key, c2.ty))

\* parse_assign after find_name found idp
assign_found(c1, idp, key) ==
    IF IS_CALLABLE_TYPE(idp.type)
    THEN Fail(c1, abort_compile("ERR_NOT_A_VARIABLE", key))
    ELSE IF Tok(c1).type # "TOK_LBRACK"
    THEN EndAssign(assign_value(expect(c1, "TOK_EQ"), idp, key, 0))
    ELSE IF ~IS_ARRAY(idp.type)
    THEN Fail(c1, abort_compile("ERR_NOT_AN_ARRAY", key))
    ELSE assign_indexed(
             expect(CheckTy(parse_simple(gen_2(expect(c1, "TOK_LBRACK"),
                                               "JVM_ALOAD", idp.offset), 0),
                            TYPE_INTEGER, "for array index of", key),
                    "TOK_RBRACK"),
             idp, key)

\* parse_assign after the identifier key
assign_id(c1, key) ==
    IF Failed(c1) THEN c1
    ELSE IF ~find_name(c1.sym, key).found
    THEN Fail(c1, abort_compile("ERR_UNKNOWN_IDENTIFIER", key))
    ELSE assign_found(c1, c1.sym.props[find_name(c1.sym, key).prop], key)

\* parse_assign after "let"
assign_let(c0) == assign_id(expect(c0, "TOK_ID"), Tok(c0).lexeme)

\* assign = "let" id [ "[" simple "]" ] "=" ( expr | "array" simple )
parse_assign(c) == assign_let(expect([c EXCEPT !.is_assign = 1], "TOK_LET"))

\* a parse_back that would not compare the type of the expression with
\* return_type
back_expr_unchecked(c0) ==
    IF Failed(c0) THEN c0
    ELSE IF STARTS_EXPR(Tok(c0).type)
    THEN gen_1(parse_expr(c0, 0), "JVM_IRETURN")
    ELSE Fail(c0, abort_compile("ERR_MISSING_BACK_EXPRESSION", ""))

\* parse_back after "back"
back_expr(c0) ==
    IF Failed(c0) THEN c0
    ELSE IF STARTS_EXPR(Tok(c0).type)
    THEN gen_1(CheckTy(parse_expr(c0, 0), c0.return_type,
                       "for 'back' statement", ""),
               "JVM_IRETURN")
    ELSE Fail(c0, abort_compile("ERR_MISSING_BACK_EXPRESSION", ""))

\* back = "back" [ expr ]
parse_back(c) == back_expr(expect(c, "TOK_BACK"))

\* an argument loop of parse_do that would not count the arguments
do_args_unchecked(c, idp, key, current_param) ==
    IF Failed(c) THEN c
    ELSE IF Tok(c).type # "TOK_COMMA" THEN [c EXCEPT !.cp = current_param]
    ELSE do_args_unchecked(parse_expr(expect(c, "TOK_COMMA"), c.ty), idp, key,
                           current_param + 1)

\* the argument loop of parse_do; c.ty is type and the result's cp is
\* current_param
do_args(c, idp, key, current_param) ==
    IF Failed(c) THEN c
    ELSE IF Tok(c).type # "TOK_COMMA" THEN [c EXCEPT !.cp = current_param]
    ELSE IF current_param + 1 = idp.nparams
    THEN Fail(c, abort_compile("ERR_TOO_MANY_ARGUMENTS", key))
    ELSE do_args(CheckParam(parse_expr(expect(c, "TOK_COMMA"), c.ty),
                            idp, current_param + 1),
                 idp, key, current_param + 1)

\* the test of current_param that follows the argument loop of parse_do
do_count(c4, idp, key) ==
    IF Failed(c4) THEN c4
    ELSE IF c4.cp < idp.nparams - 1
    THEN Fail(c4, abort_compile("ERR_TOO_FEW_ARGUMENTS", key))
    ELSE expect(c4, "TOK_RPAR")

\* parse_do after find_name found idp
do_found(c1, idp, key) ==
    IF ~IS_PROCEDURE(idp.type)
    THEN Fail(c1, abort_compile("ERR_NOT_A_PROCEDURE", key))
    ELSE do_count(do_args(CheckParam(parse_expr(expect(c1, "TOK_LPAR"), 0), idp, 0),
                          idp, key, 0),
                  idp, key)

\* parse_do after the identifier key
do_id(c1, key) ==
    IF Failed(c1) THEN c1
    ELSE IF ~find_name(c1.sym, key).found
    THEN Fail(c1, abort_compile("ERR_UNKNOWN_IDENTIFIER", key))
    ELSE do_found(c1, c1.sym.props[find_name(c1.sym, key).prop], key)

\* parse_do after "do"
do_callee(c0) == do_id(expect(c0, "TOK_ID"), Tok(c0).lexeme)

\* do = "do" id "(" expr { "," expr } ")"
parse_do(c) == do_callee(expect(c, "TOK_DO"))

\* parse_input after find_name found idp; type1 is the local never assigned
\* after its initialisation
input_found(c1, idp, key, type1) ==
    IF IS_FUNCTION(idp.type) \/ IS_PROCEDURE(idp.type)
    THEN Fail(c1, abort_compile("ERR_NOT_A_VARIABLE", key))
    ELSE IF Tok(c1).type = "TOK_LBRACK"
    THEN expect(check_types(CheckTy(parse_simple(expect(c1, "TOK_LBRACK"), type1),
                                    TYPE_INTEGER, "", ""),
                            BitXor(BitOr(idp.type, TYPE_ARRAY), TYPE_ARRAY),
                            TYPE_INTEGER, "in input", ""),
                "TOK_RBRACK")
    ELSE IF ~IS_INTEGER_TYPE(type1)
    THEN Fail(c1, abort_compile("ERR_SCALAR_VARIABLE_EXPECTED", key))
    ELSE c1

\* parse_input after the identifier key
input_id(c1, key) ==
    IF Failed(c1) THEN c1
    ELSE IF ~find_name(c1.sym, key).found
    THEN Fail(c1, abort_compile("ERR_UNKNOWN_IDENTIFIER", key))
    ELSE input_found(c1, c1.sym.props[find_name(c1.sym, key).prop], key, 0)

\* parse_input after "input"
input_target(c0) == input_id(expect(c0, "TOK_ID"), Tok(c0).lexeme)

\* input = "input" id [ "[" simple "]" ]
parse_input(c) == input_target(expect(c, "TOK_INPUT"))

\* parse_output after "&"
output_item(c1) ==
    IF Tok(c1).type = "TOK_STR"
    THEN output_more(expect(c1, "TOK_STR"))
    ELSE output_more(parse_expr(c1, c1.ty))

\* the loop of parse_output; c.ty is what the last expression left in type
output_more(c) ==
    IF Failed(c) THEN c
    ELSE IF Tok(c).type # "TOK_CAT" THEN c
    ELSE output_item(expect(c, "TOK_CAT"))

\* gen_print of the expression just parsed
output_print(c1) ==
    IF Failed(c1) THEN c1
    ELSE IF BitAnd(c1.ty, TYPE_CALLABLE) # 0
    THEN gen_print(c1, BitXor(c1.ty, TYPE_CALLABLE))
    ELSE gen_print(c1, c1.ty)

\* parse_output after "output"
output_first(c0) ==
    IF Failed(c0) THEN c0
    ELSE IF Tok(c0).type = "TOK_STR"
    THEN output_more(SetTy(gen_print_string(expect(c0, "TOK_STR"),
                                            Tok(c0).lexeme), 0))
    ELSE IF STARTS_EXPR(Tok(c0).type)
    THEN output_more(output_print(parse_expr(c0, 0)))
    ELSE Fail(c0, abort_expect("ERR_MISSING_STRING_OR_EXPRESSION", Tok(c0).type))

\* output = "output" ( string | expr ) { "&" ( string | expr ) }
parse_output(c) == output_first(expect(c, "TOK_OUTPUT"))

\* the end of parse_if and of parse_while
end_if_or_while(c) == IF Failed(c) THEN c ELSE [c EXCEPT !.is_if_or_while = 0]

\* the code that tests the guard just parsed: branch to label when it is false
gen_guard(c, label) ==
    gen_2_label(gen_2(c, "JVM_LDC", 1), "JVM_IF_ICMPNE", label)

\* parse_if after the guard of an "elif", of type c3.ty
elif_guard(c3, l1) ==
    if_elifs(gen_2_label(
                 parse_statements(expect(gen_guard(TakeLabels(c3, 1), get_label(c3)),
                                         "TOK_COLON")),
                 "JVM_GOTO", l1),
             l1, get_label(c3), c3.ty)

\* the elif loop of parse_if; the result's cp is l2
if_elifs(c, l1, l2, type1) ==
    IF Failed(c) THEN c
    ELSE IF Tok(c).type # "TOK_ELIF" THEN [c EXCEPT !.cp = l2]
    ELSE elif_guard(CheckTy(parse_expr(gen_label(expect(c, "TOK_ELIF"), l2), type1),
                            TYPE_BOOLEAN, "for 'elif' guard", ""),
                    l1)

\* parse_if after the elif loop: the optional else part
if_else(c6, l1) ==
    end_if_or_while(
        gen_label(IF Failed(c6) \/ Tok(c6).type # "TOK_ELSE" THEN c6
                  ELSE parse_statements(expect(expect(c6, "TOK_ELSE"), "TOK_COLON")),
                  l1))

\* parse_if after the elif loop, which left l2 in c5.cp
if_tail(c5, l1) == if_else(IF Failed(c5) THEN c5 ELSE gen_label(c5, c5.cp), l1)

\* parse_if after the guard, of type c1.ty
if_guard(c1, l1, l2) ==
    if_tail(if_elifs(gen_2_label(
                         parse_statements(expect(
                             check_types(gen_guard(c1, l2), c1.ty, TYPE_BOOLEAN,
                                         "for 'if' guard", ""),
                             "TOK_COLON")),
                         "JVM_GOTO", l1),
                     l1, l2, c1.ty),
            l1)

\* if = "if" expr ":" statements { "elif" expr ":" statements }
\*      [ "else" ":" statements ]
parse_if(c) ==
    if_guard(parse_expr(expect([TakeLabels(c, 2) EXCEPT !.is_if_or_while = 1],
                               "TOK_IF"), 0),
             get_label(c), get_label(c) + 1)

\* a parse_while whose body would end with a jump to the label after it
while_guard_forward(c1, l1, l2) ==
    end_if_or_while(
        gen_label(gen_2_label(
                      parse_statements(expect(
                          check_types(gen_guard(c1, l1), c1.ty, TYPE_BOOLEAN,
                                      "for 'while' guard", ""),
                          "TOK_COLON")),
                      "JVM_GOTO", l1),
                  l1))

\* parse_while after the guard, of type c1.ty
while_guard(c1, l1, l2) ==
    end_if_or_while(
        gen_label(gen_2_label(
                      parse_statements(expect(
                          check_types(gen_guard(c1, l1), c1.ty, TYPE_BOOLEAN,
                                      "for 'while' guard", ""),
                          "TOK_COLON")),
                      "JVM_GOTO", l2),
                  l1))

\* while = "while" expr ":" statements
parse_while(c) ==
    while_guard(parse_expr(gen_label(
                               expect([TakeLabels(c, 2) EXCEPT !.is_if_or_while = 1],
                                      "TOK_WHILE"),
                               get_label(c) + 1), 0),
                get_label(c), get_label(c) + 1)

\* statement = assign | back | do | if | input | output | while
parse_statement(c) ==
    IF Failed(c) THEN c
    ELSE CASE Tok(c).type = "TOK_LET" -> parse_assign(c)
           [] Tok(c).type = "TOK_BACK" -> parse_back(c)
           [] Tok(c).type = "TOK_DO" -> parse_do(c)
           [] Tok(c).type = "TOK_IF" -> parse_if(c)
           [] Tok(c).type = "TOK_INPUT" -> parse_input(c)
           [] Tok(c).type = "TOK_OUTPUT" -> parse_output(c)
           [] Tok(c).type = "TOK_WHILE" -> parse_while(c)
           [] OTHER -> Fail(c, abort_expect("ERR_MISSING_STATEMENT", Tok(c).type))

\* the loop of parse_statements
statements_more(c) ==
    IF Failed(c) THEN c
    ELSE IF Tok(c).type # "TOK_SEMICOLON" THEN c
    ELSE statements_more(parse_statement(expect(c, "TOK_SEMICOLON")))

\* statements = "chillax" | statement { ";" statement } "end"
parse_statements(c) ==
    IF Failed(c) THEN c
    ELSE IF Tok(c).type = "TOK_CHILLAX" THEN expect(c, "TOK_CHILLAX")
    ELSE expect(statements_more(parse_statement(c)), "TOK_END")

(***************************************************************************)
(* amplc.c: declarations.  c.vars is the Variable list a varseq extends.   *)
(***************************************************************************)
RECURSIVE varseq_more(_)
RECURSIVE varseqs_more(_)
RECURSIVE funcdef_params(_, _, _, _, _)
RECURSIVE body_vars(_, _, _, _)
RECURSIVE body_vars_one_idprop(_, _, _, _)

\* idprop(type, offset, nparams, params): the new IDprop is the last of props
idprop(S, type, offset, nparams, params) ==
    [S EXCEPT !.props = Append(@, [ type |-> type, offset |-> offset,
                                    nparams |-> nparams, params |-> params ])]

\* variable(id, pos)
variable(id) == [id |-> id, type |-> TYPE_NONE]

\* parse_type after "boolean" or "integer", the type of which is type
type_array(c1, type) ==
    IF Tok(c1).type = "TOK_ARRAY"
    THEN SetTy(expect(c1, "TOK_ARRAY"), BitOr(type, TYPE_ARRAY))
    ELSE SetTy(c1, type)

\* ("boolean"|"integer")["array"]
parse_type(c) ==
    IF Failed(c) THEN c
    ELSE IF Tok(c).type = "TOK_BOOLEAN" THEN type_array(get_token(c), TYPE_BOOLEAN)
    ELSE IF Tok(c).type = "TOK_INTEGER" THEN type_array(get_token(c), TYPE_INTEGER)
    ELSE Fail(c, abort_expect("ERR_MISSING_TYPE", Tok(c).type))

\* a parse_varseq that would test the identifier against the table alone
varseq_check_table_only(c1, key) ==
    IF Failed(c1) THEN c1
    ELSE IF c1.vars # <<>> /\ find_name(c1.sym, key).found
    THEN Fail(c1, abort_compile("ERR_MULTIPLE_DEFINITION", key))
    ELSE [c1 EXCEPT !.vars = Append(@, variable(key))]

\* parse_varseq after the identifier key: the test against the list and the
\* table is made once for every node of the list that has a name
varseq_check(c1, key) ==
    IF Failed(c1) THEN c1
    ELSE IF /\ c1.vars # <<>>
            /\ \/ \E i \in DOMAIN c1.vars : c1.vars[i].id = key
               \/ find_name(c1.sym, key).found
    THEN Fail(c1, abort_compile("ERR_MULTIPLE_DEFINITION", key))
    ELSE [c1 EXCEPT !.vars = Append(@, variable(key))]

\* one identifier of a varseq
varseq_id(c) == varseq_check(expect(c, "TOK_ID"), Tok(c).lexeme)

varseq_more(c) ==
    IF Failed(c) THEN c
    ELSE IF Tok(c).type # "TOK_COMMA" THEN c
    ELSE varseq_more(varseq_id(expect(c, "TOK_COMMA")))

\* parse_varseq after the type c1.ty: it is the type of the nodes from start on
varseq_types(c1, start) ==
    IF Failed(c1) THEN c1
    ELSE [c1 EXCEPT !.vars =
             [i \in DOMAIN c1.vars |->
                 IF i >= start THEN [c1.vars[i] EXCEPT !.type = c1.ty]
                 ELSE c1.vars[i]]]

\* varseq = id { "," id } "as" type
parse_varseq(c) ==
    IF Failed(c) THEN c
    ELSE varseq_types(parse_type(expect(varseq_more(varseq_id(c)), "TOK_AS")),
                      Len(c.vars) + 1)

\* { ";" varseq }
varseqs_more(c) ==
    IF Failed(c) THEN c
    ELSE IF Tok(c).type # "TOK_SEMICOLON" THEN c
    ELSE varseqs_more(parse_varseq(expect(c, "TOK_SEMICOLON")))

init_subroutine_codegen(c, name) == Gen(c, "init_subroutine_codegen", "", 0, name)
close_subroutine_codegen(c, width) == Gen(c, "close_subroutine_codegen", "", width, "")
set_max_stack_depth(c, depth) == Gen(c, "set_max_stack_depth", "", depth, "")
set_class_name(c, name) == Gen(c, "set_class_name", "", 0, name)

\* the insertion loop of parse_funcdef: every parameter is inserted with the
\* one IDprop idp_reusable
funcdef_params(S, vs, i, idp_reusable, heap) ==
    IF S.err # NoErr \/ i > Len(vs) THEN S
    ELSE funcdef_params(
             insert_name([S EXCEPT !.props[idp_reusable].type = vs[i].type],
                         vs[i].id, idp_reusable, heap).s,
             vs, i + 1, idp_reusable, heap)

\* parse_funcdef after open_subroutine returned r; c.opened is the offset
\* counter as open_subroutine left it
funcdef_opened(c, r, key, idp, heap) ==
    IF r.s.err # NoErr THEN [c EXCEPT !.sym = r.s]
    ELSE IF ~r.ret
    THEN [c EXCEPT !.sym = [r.s EXCEPT !.err = abort_compile("exit", key)]]
    ELSE init_subroutine_codegen(
             [c EXCEPT !.sym = funcdef_params(r.s, c.vars, 2, idp + 1, heap),
                       !.opened = r.s.curr_offset],
             key)

\* parse_funcdef from the header's types on: c.vars is var_list, c.ty the
\* return type and idp the IDprop of the subroutine, which is followed in
\* props by idp_reusable
funcdef_open(c, key, idp, heap) ==
    IF Failed(c) THEN c
    ELSE funcdef_opened(
             c,
             open_subroutine(
                 [c.sym EXCEPT !.props[idp] =
                     [ type |-> BitOr(c.ty, TYPE_CALLABLE), offset |-> 0,
                       nparams |-> Len(c.vars) - 1,
                       params |-> [i \in 1 .. Len(c.vars) - 1 |->
                                      c.vars[i + 1].type] ]],
                 key, idp, heap),
             key, idp, heap)

\* parse_funcdef after the type that follows "returns"
funcdef_returns(t) == IF Failed(t) THEN t ELSE [t EXCEPT !.return_type = t.ty]

\* parse_funcdef after the parameters
funcdef_takes(c3, key, idp, heap) ==
    IF Failed(c3) THEN c3
    ELSE funcdef_open(IF Tok(c3).type = "TOK_RETURNS"
                      THEN funcdef_returns(parse_type(expect(c3, "TOK_RETURNS")))
                      ELSE [c3 EXCEPT !.return_type = 0, !.ty = 0],
                      key, idp, heap)

\* parse_funcdef after the identifier key
funcdef_id(c1, key, idp, heap) ==
    IF Failed(c1) THEN c1
    ELSE IF find_name(c1.sym, key).found
    THEN Fail(c1, abort_compile("ERR_MULTIPLE_DEFINITION", key))
    ELSE funcdef_takes(
             varseqs_more(parse_varseq(
                 [expect(expect(c1, "TOK_COLON"), "TOK_TAKES")
                     EXCEPT !.vars = <<variable(key)>>])),
             key, idp, heap)

\* funcdef = id ":" "takes" varseq { ";" varseq } [ "returns" type ] body,
\* up to the body
parse_funcdef(c, heap) ==
    funcdef_id(expect([c EXCEPT !.sym = idprop(idprop(c.sym, TYPE_NONE, 0, 0, <<>>),
                                               TYPE_NONE, 0, 0, <<>>)],
                      "TOK_ID"),
               Tok(c).lexeme, Len(c.sym.props) + 1, heap)

\* the insertion loop of parse_body with one IDprop for all the variables
body_vars_one_idprop(S, vs, i, heap) ==
    IF S.err # NoErr \/ i > Len(vs) THEN S
    ELSE IF i = 1
    THEN body_vars_one_idprop(
             insert_name(idprop(S, vs[i].type, 0, 0, <<>>), vs[i].id,
                         Len(S.props) + 1, heap).s,
             vs, i + 1, heap)
    ELSE body_vars_one_idprop(
             insert_name([S EXCEPT !.props[Len(S.props)].type = vs[i].type],
                         vs[i].id, Len(S.props), heap).s,
             vs, i + 1, heap)

\* the insertion loop of parse_body: a new IDprop for every variable
body_vars(S, vs, i, heap) ==
    IF S.err # NoErr \/ i > Len(vs) THEN S
    ELSE body_vars(insert_name(idprop(S, vs[i].type, 0, 0, <<>>), vs[i].id,
                               Len(S.props) + 1, heap).s,
                   vs, i + 1, heap)

\* parse_body after the varseqs
body_insert(c1, heap) ==
    IF Failed(c1) THEN c1
    ELSE [c1 EXCEPT !.sym = body_vars(c1.sym, c1.vars, 1, heap)]

\* body = [ "vars" varseq { ";" varseq } ] statements, up to the statements
parse_body(c, heap) ==
    IF Failed(c) \/ Tok(c).type # "TOK_VARS" THEN c
    ELSE body_insert(varseqs_more(parse_varseq([expect(c, "TOK_VARS")
                                                   EXCEPT !.vars = <<>>])),
                     heap)

\* parse_program: the IDprop of main is the first the process allocates
idp_filler == 1

\* parse_program after "program"
program_name(c1) ==
    expect(set_class_name(expect(c1, "TOK_ID"), Tok(c1).lexeme), "TOK_COLON")

\* program = "program" id ":" ..., up to the subroutine definitions
parse_program(c) ==
    program_name(expect([c EXCEPT !.sym = idprop(c.sym, TYPE_CALLABLE, 0, 0, <<>>)],
                        "TOK_PROGRAM"))

\* parse_program after ":" of main
main_body(c3) ==
    IF Failed(c3) THEN c3
    ELSE [c3 EXCEPT !.sym = reset_offset(c3.sym), !.return_type = TYPE_NONE]

\* parse_program after "main"
main_insert(c1, heap) ==
    IF Failed(c1) THEN c1
    ELSE main_body(expect(init_subroutine_codegen(
                              [c1 EXCEPT !.sym = insert_name(c1.sym, "main",
                                                             idp_filler, heap).s],
                              "main"),
                          "TOK_COLON"))

\* parse_program: ... "main" ":" body, up to the body
parse_main(c, heap) ==
    main_insert(expect([c EXCEPT !.stack_depth = 0, !.max_stack_depth = 0],
                       "TOK_MAIN"),
                heap)

\* what follows the statements of a subroutine's body
end_funcdef(c) ==
    IF Failed(c) THEN c
    ELSE close_subroutine_codegen([c EXCEPT !.sym = close_subroutine(c.sym)],
                                  c.max_stack_depth)

\* what follows the statements of main's body
end_program(c) ==
    IF Failed(c) THEN c
    ELSE close_subroutine_codegen(set_max_stack_depth(c, c.max_stack_depth),
                                  return_curr_offset(c.sym) + 1)

(***************************************************************************)
(* The source texts fed to the parser, as token sequences.                 *)
(***************************************************************************)
RECURSIVE Join(_, _)
Join(seqs, sep) ==
    IF seqs = <<>> THEN <<>>
    ELSE IF Len(seqs) = 1 THEN seqs[1]
    ELSE seqs[1] \o <<sep>> \o Join(Tail(seqs), sep)

TypeToks(type) ==
    (IF IS_BOOLEAN_TYPE(type) THEN <<T("TOK_BOOLEAN")>> ELSE <<T("TOK_INTEGER")>>)
    \o (IF IS_ARRAY_TYPE(type) THEN <<T("TOK_ARRAY")>> ELSE <<>>)

\* ids "as" type
Group(ids, type) == [ids |-> ids, type |-> type]
GroupToks(g) ==
    Join([i \in DOMAIN g.ids |-> <<Id(g.ids[i])>>], T("TOK_COMMA"))
    \o <<T("TOK_AS")>> \o TypeToks(g.type)
GroupsToks(gs) == Join([i \in DOMAIN gs |-> GroupToks(gs[i])], T("TOK_SEMICOLON"))

RECURSIVE GroupsIds(_)
GroupsIds(gs) == IF gs = <<>> THEN <<>> ELSE gs[1].ids \o GroupsIds(Tail(gs))
RECURSIVE GroupsTypes(_)
GroupsTypes(gs) ==
    IF gs = <<>> THEN <<>>
    ELSE [i \in DOMAIN gs[1].ids |-> gs[1].type] \o GroupsTypes(Tail(gs))

FuncdefToks(key, gs, rtype) ==
    <<Id(key), T("TOK_COLON"), T("TOK_TAKES")>> \o GroupsToks(gs)
    \o (IF rtype = TYPE_NONE THEN <<>> ELSE <<T("TOK_RETURNS")>> \o TypeToks(rtype))

VarsToks(gs) == IF gs = <<>> THEN <<>> ELSE <<T("TOK_VARS")>> \o GroupsToks(gs)

CallToks(f, args) ==
    <<Id(f), T("TOK_LPAR")>> \o Join(args, T("TOK_COMMA")) \o <<T("TOK_RPAR")>>
LetToks(x, e) == <<T("TOK_LET"), Id(x), T("TOK_EQ")>> \o e
DoToks(f, args) == <<T("TOK_DO")>> \o CallToks(f, args)

FuncNames == {"f"}

ParamLists ==
    { <<Group(<<"a">>, TYPE_INTEGER)>>,
      <<Group(<<"a", "b">>, TYPE_INTEGER)>>,
      <<Group(<<"a">>, TYPE_INTEGER), Group(<<"b">>, TYPE_BOOLEAN)>>,
      <<Group(<<"a">>, BitOr(TYPE_INTEGER, TYPE_ARRAY)), Group(<<"b">>, TYPE_INTEGER)>>,
      <<Group(<<"a", "a">>, TYPE_INTEGER)>>,
      <<Group(<<"a">>, TYPE_INTEGER), Group(<<"b", "a">>, TYPE_BOOLEAN)>> }

ReturnTypes == {TYPE_NONE, TYPE_INTEGER}

VarLists ==
    { <<>>,
      <<Group(<<"x">>, TYPE_INTEGER)>>,
      <<Group(<<"x", "y">>, TYPE_INTEGER)>>,
      <<Group(<<"x">>, TYPE_INTEGER), Group(<<"y">>, BitOr(TYPE_BOOLEAN, TYPE_ARRAY))>>,
      <<Group(<<"x">>, TYPE_INTEGER), Group(<<"x">>, TYPE_BOOLEAN)>>,
      <<Group(<<"x", "x">>, TYPE_INTEGER)>>,
      <<Group(<<"a">>, TYPE_INTEGER)>> }

\* A statement, with what the language asks of its context for it to be
\* valid: the declarations it needs (params = <<>> for a variable), the return
\* type of the enclosing subroutine (-1: any), and whether it is well formed;
\* call tells the call it makes: its form ("do", or "expr" for the right-hand
\* side of a let), the callee and the number of arguments.
Need(id, type, params) == [id |-> id, type |-> type, params |-> params]
Call(form, f, nargs) == [form |-> form, f |-> f, nargs |-> nargs]
NoCall == Call("none", "", 0)
Stmt(toks, needs, ret, ok, call) ==
    [toks |-> toks, needs |-> needs, ret |-> ret, ok |-> ok, call |-> call]

NeedX == Need("x", TYPE_INTEGER, <<>>)
NeedA == Need("a", TYPE_INTEGER, <<>>)
XLess1 == <<Id("x"), T("TOK_LT"), Num(1)>>

Args(n) == [i \in 1 .. n |-> <<Num(i)>>]
IntParams(n) == [i \in 1 .. n |-> TYPE_INTEGER]
NeedFunc(n) == Need("f", BitOr(TYPE_CALLABLE, TYPE_INTEGER), IntParams(n))
NeedProc(n) == Need("f", TYPE_CALLABLE, IntParams(n))

\* let x = f(1, .., n): valid for a function f of n >= 1 parameters
LetCall(n) ==
    Stmt(LetToks("x", CallToks("f", Args(n))),
         IF n = 0 THEN {} ELSE {NeedX, NeedFunc(n)}, -1, n > 0, Call("expr", "f", n))

\* do f(1, .., n): valid for a procedure f of n >= 1 parameters
DoCall(n) ==
    Stmt(DoToks("f", Args(n)), IF n = 0 THEN {} ELSE {NeedProc(n)}, -1, n > 0,
         Call("do", "f", n))

Statements ==
    { Stmt(LetToks("x", <<Num(1)>>), {NeedX}, -1, TRUE, NoCall),
      Stmt(LetToks("x", <<Id("a"), T("TOK_PLUS"), Num(1)>>), {NeedX, NeedA}, -1,
           TRUE, NoCall),
      Stmt(<<T("TOK_BACK")>>, {}, TYPE_NONE, TRUE, NoCall),
      Stmt(<<T("TOK_BACK"), Id("a")>>, {NeedA}, TYPE_INTEGER, TRUE, NoCall),
      Stmt(<<T("TOK_INPUT"), Id("x")>>, {NeedX}, -1, TRUE, NoCall),
      Stmt(<<T("TOK_OUTPUT"), Id("x")>>, {NeedX}, -1, TRUE, NoCall),
      Stmt(<<T("TOK_OUTPUT"), Str("s")>>, {}, -1, TRUE, NoCall),
      Stmt(<<T("TOK_IF"), Id("x"), T("TOK_EQ"), Num(1), T("TOK_COLON"),
             T("TOK_CHILLAX")>>, {NeedX}, -1, TRUE, NoCall),
      Stmt(<<T("TOK_IF")>> \o XLess1 \o <<T("TOK_COLON")>>
             \o LetToks("x", <<Num(1)>>) \o <<T("TOK_END"), T("TOK_ELIF"),
             Id("x"), T("TOK_EQ"), Num(2), T("TOK_COLON"), T("TOK_CHILLAX"),
             T("TOK_ELSE"), T("TOK_COLON"), T("TOK_OUTPUT"), Id("x"), T("TOK_END")>>,
           {NeedX}, -1, TRUE, NoCall),
      Stmt(<<T("TOK_WHILE")>> \o XLess1 \o <<T("TOK_COLON")>>
             \o LetToks("x", <<Id("x"), T("TOK_PLUS"), Num(1)>>) \o <<T("TOK_END")>>,
           {NeedX}, -1, TRUE, NoCall) }
    \cup { LetCall(n) : n \in 0 .. MaxArgs }
    \cup { DoCall(n) : n \in 0 .. MaxArgs }

(***************************************************************************)
(* Source texts that exercise the type checker: one subroutine header, the *)
(* variables x (integer) and y (integer array), and statements built from  *)
(* a few expressions of every type.                                        *)
(***************************************************************************)
Header(key, gs, rtype) == [key |-> key, gs |-> gs, rtype |-> rtype]

IntArrayThenInt ==
    <<Group(<<"a">>, BitOr(TYPE_INTEGER, TYPE_ARRAY)), Group(<<"b">>, TYPE_INTEGER)>>

TypedHeaders ==
    { Header("f", <<Group(<<"a">>, TYPE_INTEGER)>>, TYPE_INTEGER),
      Header("f", <<Group(<<"a">>, TYPE_INTEGER)>>, TYPE_BOOLEAN),
      Header("f", IntArrayThenInt, TYPE_INTEGER),
      Header("f", IntArrayThenInt, TYPE_NONE) }

TypedVarLists ==
    { <<>>,
      <<Group(<<"x">>, TYPE_INTEGER), Group(<<"y">>, BitOr(TYPE_INTEGER, TYPE_ARRAY))>> }

\* a statement of which only the text is recorded
Typed(toks) == Stmt(toks, {}, -1, FALSE, NoCall)

OnePlusTwo == <<Num(1), T("TOK_PLUS"), Num(2)>>
OnePlusTrue == <<Num(1), T("TOK_PLUS"), T("TOK_TRUE")>>

\* the arguments of the calls: 1, 1 + 2, true, y
ArgExprs == {<<Num(1)>>, OnePlusTwo, <<T("TOK_TRUE")>>, <<Id("y")>>}

\* "let x = f(e1, e2)" and "do f(e1, e2)"
CallStmt(form, e1, e2) ==
    IF form = "do" THEN DoToks("f", <<e1, e2>>)
    ELSE LetToks("x", CallToks("f", <<e1, e2>>))

\* "let y[index] = e"
IndexedLetToks(y, index, e) ==
    <<T("TOK_LET"), Id(y), T("TOK_LBRACK")>> \o index
    \o <<T("TOK_RBRACK"), T("TOK_EQ")>> \o e

\* index expressions that are plain integers, and those that are not:
\* true, 1 + true, y
IntegerIndexes == {<<Num(1)>>, OnePlusTwo}
NonIntegerIndexes == {<<T("TOK_TRUE")>>, OnePlusTrue, <<Id("y")>>}

\* the operands of the comparisons: x, f(1), true, y
OrdOperands == {<<Id("x")>>, CallToks("f", <<<<Num(1)>>>>), <<T("TOK_TRUE")>>, <<Id("y")>>}
OrdOperators == {"TOK_LT", "TOK_GE"}

\* "if l relop r: chillax"
IfOrdToks(l, relop, r) ==
    <<T("TOK_IF")>> \o l \o <<T(relop)>> \o r \o <<T("TOK_COLON"), T("TOK_CHILLAX")>>

\* what may follow "back": nothing, 1, true
BackExprs == {<<>>, <<Num(1)>>, <<T("TOK_TRUE")>>}
BackToks(e) == <<T("TOK_BACK")>> \o e

\* "let x = array e"
LetArrayToks(x, e) == <<T("TOK_LET"), Id(x), T("TOK_EQ"), T("TOK_ARRAY")>> \o e

\* "x relop 1", the guard of the branching statements
Guard(relop) == <<Id("x"), T(relop), Num(1)>>

\* "if x < 1: let x = 1 end elif x >= 1: chillax elif x > 1: chillax
\*  else: output x end"
IfChainToks ==
    <<T("TOK_IF")>> \o Guard("TOK_LT") \o <<T("TOK_COLON")>>
    \o LetToks("x", <<Num(1)>>) \o <<T("TOK_END"), T("TOK_ELIF")>>
    \o Guard("TOK_GE") \o <<T("TOK_COLON"), T("TOK_CHILLAX"), T("TOK_ELIF")>>
    \o Guard("TOK_GT") \o <<T("TOK_COLON"), T("TOK_CHILLAX"), T("TOK_ELSE"),
                            T("TOK_COLON"), T("TOK_OUTPUT"), Id("x"), T("TOK_END")>>

\* "while x < 1: body"
WhileToks(body) ==
    <<T("TOK_WHILE")>> \o Guard("TOK_LT") \o <<T("TOK_COLON")>> \o body

\* "if x < 1: chillax elif x >= 1: while x < 1: chillax end else: chillax"
IfWithWhileToks ==
    <<T("TOK_IF")>> \o Guard("TOK_LT") \o <<T("TOK_COLON"), T("TOK_CHILLAX"),
                                             T("TOK_ELIF")>>
    \o Guard("TOK_GE") \o <<T("TOK_COLON")>>
    \o WhileToks(<<T("TOK_CHILLAX")>>)
    \o <<T("TOK_END"), T("TOK_ELSE"), T("TOK_COLON"), T("TOK_CHILLAX")>>

\* the branching statements: an if with every part, a while, an if in a
\* while and a while in an if in a while
BranchingStatements ==
    { IfChainToks,
      WhileToks(LetToks("x", <<Id("x"), T("TOK_PLUS"), Num(1)>>) \o <<T("TOK_END")>>),
      WhileToks(IfChainToks \o <<T("TOK_END")>>),
      WhileToks(IfWithWhileToks \o <<T("TOK_END")>>) }

\* a statement that applies an operator, with the instructions of which
\* one is the operator's
Applies(toks, fn, ops) == [toks |-> toks, fn |-> fn, ops |-> ops]

\* the instructions that negate an integer or a boolean
NegationOps == {"JVM_INEG", "JVM_IXOR", "JVM_ISUB"}

\* "if g: chillax", "let x = e", "output e"
IfToks(g) == <<T("TOK_IF")>> \o g \o <<T("TOK_COLON"), T("TOK_CHILLAX")>>
OutputToks(e) == <<T("TOK_OUTPUT")>> \o e

\* "if x < 1: while x < 1: chillax end elif g: chillax"
IfWhileElifToks(g) ==
    <<T("TOK_IF")>> \o Guard("TOK_LT") \o <<T("TOK_COLON")>>
    \o WhileToks(<<T("TOK_CHILLAX")>>) \o <<T("TOK_END"), T("TOK_ELIF")>>
    \o g \o <<T("TOK_COLON"), T("TOK_CHILLAX")>>

\* comparisons in a guard, in a guard after a nested while, in an
\* assignment and in an output; a unary minus and a not
OperatorStatements ==
    { Applies(IfToks(Guard("TOK_EQ")), "gen_cmp", {"JVM_IF_ICMPEQ"}),
      Applies(IfToks(Guard("TOK_NE")), "gen_cmp", {"JVM_IF_ICMPNE"}),
      Applies(IfToks(Guard("TOK_LE")), "gen_cmp", {"JVM_IF_ICMPLE"}),
      Applies(IfWhileElifToks(Guard("TOK_GT")), "gen_cmp", {"JVM_IF_ICMPGT"}),
      Applies(OutputToks(Guard("TOK_LT")), "gen_cmp", {"JVM_IF_ICMPLT"}),
      Applies(LetToks("x", <<T("TOK_MINUS"), Num(1)>>), "gen_1", NegationOps),
      Applies(IfToks(<<T("TOK_NOT"), T("TOK_TRUE")>>), "gen_1", NegationOps) }

TypedStatements ==
    { Typed(toks) : toks \in BranchingStatements }
    \cup { Typed(s.toks) : s \in OperatorStatements }
    \cup
    { Typed(CallStmt(form, e1, e2)) :
        form \in {"do", "expr"}, e1 \in ArgExprs, e2 \in ArgExprs }
    \cup { Typed(IndexedLetToks("y", i, <<Num(0)>>)) :
             i \in IntegerIndexes \cup NonIntegerIndexes }
    \cup { Typed(LetToks("x", <<Num(5)>>)) }
    \cup { Typed(IfOrdToks(l, relop, r)) :
             l \in OrdOperands, relop \in OrdOperators, r \in OrdOperands }
    \cup { Typed(BackToks(e)) : e \in BackExprs }
    \cup { Typed(LetArrayToks(x, <<Num(3)>>)) : x \in {"x", "y"} }

(***************************************************************************)
(* amplc.c: the compiler, one action per construct of the program text.    *)
(***************************************************************************)
\* the globals as the context of a parse function that reads toks
Ctx(toks) ==
    [ toks |-> toks, sym |-> SymTab, return_type |-> return_type,
      is_assign |-> is_assign, stack_depth |-> stack_depth,
      max_stack_depth |-> max_stack_depth, is_if_or_while |-> is_if_or_while,
      code |-> code, nlabels |-> nlabels, ty |-> 0, cp |-> 0, vars |-> <<>>,
      opened |-> -1 ]

\* the globals take the values of the context c
SetCtx(c) ==
    /\ SetSymTab(c.sym)
    /\ return_type' = c.return_type
    /\ is_assign' = c.is_assign
    /\ stack_depth' = c.stack_depth
    /\ max_stack_depth' = c.max_stack_depth
    /\ is_if_or_while' = c.is_if_or_while
    /\ code' = c.code
    /\ nlabels' = c.nlabels

\* a construct that leaves tokens unread is followed by neither ";" nor "end"
Unread(c) ==
    IF ~Failed(c) /\ c.toks # <<>>
    THEN Fail(c, abort_expect("ERR_EXPECT", "TOK_END"))
    ELSE c

\* what was read last: the construct, what the parser left of it (rest: the
\* tokens unread when it returned or ended the process) and whether it and
\* everything before it is valid in the language
Input(kind, key, ids, types, toks, needs, ret, ok, opened, call, c, valid) ==
    [ kind |-> kind, key |-> key, ids |-> ids, types |-> types, toks |-> toks,
      needs |-> needs, ret |-> ret, ok |-> ok, opened |-> opened, call |-> call,
      rest |-> c.toks, valid |-> last.valid /\ valid ]

Distinct(ids) == \A i, j \in DOMAIN ids : i # j => ids[i] # ids[j]

\* a subroutine header declares a new name and parameters of distinct names
ValidFuncdef(key, gs) ==
    /\ Distinct(<<key>> \o GroupsIds(gs))
    /\ ~find_name(SymTab, key).found

\* the variables of a body have distinct names that nothing visible bears
ValidVars(gs) ==
    /\ Distinct(GroupsIds(gs))
    /\ \A i \in DOMAIN GroupsIds(gs) : ~find_name(SymTab, GroupsIds(gs)[i]).found

\* the declaration n is visible, with this type and these parameters
NeedMet(n) ==
    /\ find_name(SymTab, n.id).found
    /\ props[find_name(SymTab, n.id).prop].type = n.type
    /\ props[find_name(SymTab, n.id).prop].params = n.params

ValidStatement(s) ==
    /\ s.ok
    /\ s.ret \in {-1, return_type}
    /\ \A n \in s.needs : NeedMet(n)

\* the calls the code generator received for the body being compiled
InBody(i) ==
    \A j \in i .. Len(code) : code[j].fn # "init_subroutine_codegen"

\* a body may end in main, in a procedure, and in a function that gave a value
ValidEnd ==
    \/ in_main
    \/ return_type = TYPE_NONE
    \/ \E i \in DOMAIN code : code[i].op = "JVM_IRETURN" /\ InBody(i)

Compiling == err = NoErr /\ out.cmd = "none"

\* "program" id ":"
Program ==
    /\ Compiling
    /\ pc = "program"
    /\ \E toks \in {<<T("TOK_PROGRAM"), Id("p"), T("TOK_COLON")>>} :
       \E c \in {parse_program(Ctx(toks))} :
           /\ SetCtx(c)
           /\ pc' = "funcs"
           /\ last' = Input("program", "p", <<>>, <<>>, toks, {}, -1, TRUE, -1,
                            NoCall, c, TRUE)
    /\ UNCHANGED <<in_main, nfuncs, nstmts, main_is_active, out, scanner>>

\* one turn of the loop of parse_program: the header of a subroutine
Funcdef(key, gs, rtype) ==
    /\ Compiling
    /\ pc = "funcs"
    /\ nfuncs < MaxFuncs
    /\ \E heap \in HeapChoices(SymTab), toks \in {FuncdefToks(key, gs, rtype)} :
       \E c \in {Unread(parse_funcdef([Ctx(toks) EXCEPT !.stack_depth = 0,
                                                       !.max_stack_depth = 0],
                                      heap))} :
           /\ SetCtx(c)
           /\ pc' = IF Failed(c) THEN pc ELSE "body"
           /\ nfuncs' = IF Failed(c) THEN nfuncs ELSE nfuncs + 1
           /\ last' = Input("funcdef", key, GroupsIds(gs), GroupsTypes(gs), toks,
                            {}, rtype, TRUE, c.opened, NoCall, c,
                            ValidFuncdef(key, gs))
    /\ UNCHANGED <<in_main, nstmts, main_is_active, out, scanner>>

\* "main" ":"
Main ==
    /\ Compiling
    /\ pc = "funcs"
    /\ \E heap \in HeapChoices(SymTab), toks \in {<<T("TOK_MAIN"), T("TOK_COLON")>>} :
       \E c \in {parse_main(Ctx(toks), heap)} :
           /\ SetCtx(c)
           /\ pc' = IF Failed(c) THEN pc ELSE "body"
           /\ in_main' = ~Failed(c)
           /\ last' = Input("main", "main", <<>>, <<>>, toks, {}, -1, TRUE, -1,
                            NoCall, c, TRUE)
    /\ UNCHANGED <<nfuncs, nstmts, main_is_active, out, scanner>>

\* the declarations of a body
Body(gs) ==
    /\ Compiling
    /\ pc = "body"
    /\ \E heap \in HeapChoices(SymTab), toks \in {VarsToks(gs)} :
       \E c \in {Unread(parse_body(Ctx(toks), heap))} :
           /\ SetCtx(c)
           /\ pc' = IF Failed(c) THEN pc ELSE "statements"
           /\ last' = Input("vars", "", GroupsIds(gs), GroupsTypes(gs), toks,
                            {}, -1, TRUE, -1, NoCall, c, ValidVars(gs))
    /\ UNCHANGED <<in_main, nfuncs, nstmts, main_is_active, out, scanner>>

\* the end of a body: the rest of parse_funcdef or of parse_program
EndBody(c, kind, toks) ==
    \E c1 \in {IF in_main THEN end_program(c) ELSE end_funcdef(c)} :
        /\ SetCtx(c1)
        /\ pc' = IF Failed(c1) THEN pc ELSE IF in_main THEN "done" ELSE "funcs"
        /\ last' = Input(kind, "", <<>>, <<>>, toks, {}, -1, TRUE, -1, NoCall, c1,
                         ValidEnd)
        /\ UNCHANGED <<in_main, nfuncs, nstmts, main_is_active, out, scanner>>

\* statements = "chillax"
Chillax ==
    /\ Compiling
    /\ pc = "statements"
    /\ EndBody(parse_statements(Ctx(<<T("TOK_CHILLAX")>>)), "chillax",
               <<T("TOK_CHILLAX")>>)

\* one statement of a body, after ";" when it is not the first
Statement(s) ==
    /\ Compiling
    /\ pc \in {"statements", "statement"}
    /\ nstmts < MaxStmts
    /\ \E c \in {Unread(parse_statement(Ctx(s.toks)))} :
           /\ SetCtx(c)
           /\ pc' = IF Failed(c) THEN pc ELSE "statement"
           /\ nstmts' = nstmts + 1
           /\ last' = Input("statement", "", <<>>, <<>>, s.toks, s.needs, s.ret,
                            s.ok, -1, s.call, c, ValidStatement(s))
    /\ UNCHANGED <<in_main, nfuncs, main_is_active, out, scanner>>

\* "end" after the last statement of a body
End ==
    /\ Compiling
    /\ pc = "statement"
    /\ EndBody(expect(Ctx(<<T("TOK_END")>>), "TOK_END"), "end", <<T("TOK_END")>>)

Init ==
    /\ SetSymTabInit
    /\ main_is_active = TRUE
    /\ out = Outcome("none", "", FALSE, NULL, "")
    /\ ParserIdle
    /\ scanner = ScannerIdle

Next ==
    \/ Program
    \/ \E key \in FuncNames, gs \in ParamLists, rtype \in ReturnTypes :
          Funcdef(key, gs, rtype)
    \/ Main
    \/ \E gs \in VarLists : Body(gs)
    \/ Chillax
    \/ \E s \in Statements : Statement(s)
    \/ End

Spec == Init /\ [][Next]_vars

\* one statement of a program whose statements exercise the type checker
TypedStatement(s) == nstmts < MaxTypedStmts /\ Statement(s)

NextTyping ==
    \/ Program
    \/ \E h \in TypedHeaders : Funcdef(h.key, h.gs, h.rtype)
    \/ Main
    \/ \E gs \in TypedVarLists : Body(gs)
    \/ Chillax
    \/ \E s \in TypedStatements : TypedStatement(s)
    \/ End

SpecTyping == Init /\ [][NextTyping]_vars

(***************************************************************************)
(* The source texts given to the scanner, and the scanner run on one of    *)
(* them: amplc.c opens the file, calls init_scanner and then asks for one  *)
(* token after another until the end of the file or a fatal error.         *)
(***************************************************************************)

\* the characters of the texts of comments and strings
TextChars == {"{", "}", "\"", "\\", "a", "n", "\n"}

CommentAndStringTexts == UNION {[1..n -> TextChars] : n \in 0..MaxTextLen}

\* the text of a number written digit by digit
Numeral(ds) == [i \in 1..Len(ds) |-> Digits[ds[i] + 1]]

\* the digits of INT_MAX but the last
IntMaxTens == <<2, 1, 4, 7, 4, 8, 3, 6, 4>>

\* digit runs around INT_MAX, with and without leading zeros, and others
NumberTexts ==
    { Numeral(zeros \o IntMaxTens \o <<d>> \o more) :
          zeros \in {<<>>, <<0>>, <<0, 0>>}, d \in 0..9,
          more \in {<<>>, <<0>>, <<9>>} }
    \cup { Numeral(ds) : ds \in
             { <<0>>, <<7>>, <<1, 2>>, IntMaxTens,
               <<2, 1, 4, 7, 4, 8, 3, 6, 3, 9>>, <<2, 1, 4, 7, 4, 8, 3, 5, 9, 9>>,
               <<2, 1, 4, 7, 4, 8, 3, 7, 0, 0>>, <<3, 0, 0, 0, 0, 0, 0, 0, 0, 0>>,
               <<1, 9, 9, 9, 9, 9, 9, 9, 9, 9>>, <<9, 9, 9, 9, 9, 9, 9, 9, 9, 9>>,
               <<4, 2, 9, 4, 9, 6, 7, 2, 9, 6>>, <<4, 2, 9, 4, 9, 6, 7, 2, 9, 7>> } }

\* the reserved words, words next to them, and words that are no words
WordTexts ==
    { reserved[i].word : i \in 1..NUM_RESERVED_WORDS }
    \cup { <<"a">>, <<"a", "n">>, <<"a", "n", "d", "y">>, <<"w", "h", "i", "l">>,
           <<"w", "h", "i", "l", "e", "x">>, <<"z", "z">>, <<"x", "_", "1">>,
           <<"x", "1", "_", "y">>, <<"1", "_", "x">>, <<"1", "2", "a">>,
           <<"x", "^">>, <<"_", "x">> }

OperatorTexts ==
    { <<p[1]>> : p \in OneCharTokens \cup TwoCharTokens }
    \cup { <<p[1], "=">> : p \in TwoCharTokens }
    \cup { <<"a", " ", "<", "=", "1", "\t", "b">>, <<"\"", "\t", "\"">>,
           <<"l", "e", "t", " ", "x", "=", "\"", "a", "\\", "n", "\"", ";">>,
           <<"x", "\n", " ", " ", "\"", "a", "b">>, <<"x", "\n", " ", "{", "a", "\n", "{", "b">>,
           <<"?">> }

\* the characters put after a reserved word
WordSuffixChars == {"a", "z", "_", "0"}

\* the beginnings of the reserved words, and the reserved words with one
\* more character
NearWordTexts ==
    { SubSeq(reserved[p[1]].word, 1, p[2]) :
          p \in { q \in (1..NUM_RESERVED_WORDS) \X (1..MaxPrefixLen) :
                      q[2] <= Len(reserved[q[1]].word) } }
    \cup { Append(reserved[i].word, c) :
              i \in 1..NUM_RESERVED_WORDS, c \in WordSuffixChars }

Texts ==
    CommentAndStringTexts \cup NumberTexts \cup WordTexts \cup OperatorTexts
        \cup NearWordTexts

ScannerInit ==
    /\ SetSymTabInit
    /\ main_is_active = TRUE
    /\ out = Outcome("none", "", FALSE, NULL, "")
    /\ ParserIdle
    /\ \E in_file \in Texts : scanner = init_scanner(in_file)

\* one call of get_token by the parser
GetToken ==
    /\ scanner.ch # NUL
    /\ ~failed(scanner)
    /\ ~(scanner.ntokens > 0 /\ scanner.token.type = "TOK_EOF")
    /\ scanner' = [scanner_get_token(scanner) EXCEPT !.ntokens = @ + 1]
    /\ UNCHANGED <<props, tabs, table, saved_table, curr_offset, err,
                   main_is_active, out, pc, in_main, return_type, is_assign,
                   stack_depth, max_stack_depth, is_if_or_while, code, nlabels,
                   nfuncs, nstmts, last>>

ScannerNext == GetToken

SpecScanner == ScannerInit /\ [][ScannerNext]_vars

(***************************************************************************)
(* hashtable.c under a caller that makes one table with the functions of   *)
(* the symbol table and inserts keys into it.                              *)
(***************************************************************************)
\* the keys, in the order the bound takes them; "a" and "n" share a bucket
\* of the initial table
KeyOrder == <<"a", "n", "b", "c", "d", "e", "f", "g", "h", "i", "j", "k", "l">>

HtKeys == { KeyOrder[i] : i \in 1 .. MaxKeys }

\* the address of the value the caller stores under key
ValueOf(key) == CHOOSE i \in DOMAIN KeyOrder : KeyOrder[i] = key

HashtableInit ==
    /\ SetSymTabInit
    /\ main_is_active = TRUE
    /\ out = Outcome("none", "", FALSE, NULL, "")
    /\ ParserIdle
    /\ scanner = ScannerIdle

\* ht_insert(ht, key, value) on the caller's table; a process that is left
\* with a freed table reads freed memory from then on
HtInsert(key) ==
    /\ err = NoErr
    /\ \E heap \in HeapChoices(SymTab) :
       \E ins \in {ht_insert(tabs[table], key, ValueOf(key), heap)} :
           /\ SetSymTab(store_table(SymTab, ins.ht))
           /\ out' = Outcome("ht_insert", key, ins.rc = EXIT_SUCCESS,
                             ValueOf(key), "")
    /\ UNCHANGED main_is_active
    /\ UNCHANGED pvars

HashtableNext == \E key \in HtKeys : HtInsert(key)

SpecHashtable == HashtableInit /\ [][HashtableNext]_vars

(***************************************************************************)
(* Helpers of the properties: what a scope holds, read off the buckets     *)
(* without going through the hash function.                                *)
(***************************************************************************)
InTable(ht, id) ==
    \E k \in DOMAIN ht.table : \E i \in DOMAIN ht.table[k] : ht.table[k][i].key = id

PropIn(ht, id) ==
    CHOOSE v \in 1 .. Len(props) :
        \E k \in DOMAIN ht.table : \E i \in DOMAIN ht.table[k] :
            ht.table[k][i].key = id /\ ht.table[k][i].value = v

\* the value types of the language: scalars, arrays, functions, procedures
ValTypes ==
    { TYPE_BOOLEAN, TYPE_INTEGER,
      BitOr(TYPE_BOOLEAN, TYPE_ARRAY), BitOr(TYPE_INTEGER, TYPE_ARRAY),
      TYPE_CALLABLE, BitOr(TYPE_CALLABLE, TYPE_BOOLEAN),
      BitOr(TYPE_CALLABLE, TYPE_INTEGER) }

\* properties a caller may hand to insert_name
SampleProps ==
    { [type |-> t, offset |-> o, nparams |-> Len(ps), params |-> ps] :
        t \in ValTypes, o \in UninitOffsets,
        ps \in {<<>>, <<TYPE_INTEGER, BitOr(TYPE_BOOLEAN, TYPE_ARRAY)>>} }

\* the calls of fn that the code generator received
Calls(fn) == Cardinality({i \in DOMAIN code : code[i].fn = fn})

\* the symbol table after the step
SymTabNext ==
    [ props |-> props', tabs |-> tabs', table |-> table',
      saved_table |-> saved_table', curr_offset |-> curr_offset', err |-> err' ]

\* the properties that find_name returns for a visible name
Visible(S, id) == S.props[find_name(S, id).prop]

(***************************************************************************)
(* C1.  As long as what was read is a valid program text, the compiler has *)
(* not ended with a fatal error, and when the program has been read to its *)
(* end the code generator was given one instruction stream for every       *)
(* subroutine defined and one for main.                                    *)
(***************************************************************************)
C1_ValidProgramsParse ==
    last.valid =>
        /\ err = NoErr
        /\ pc = "done" =>
              /\ Calls("init_subroutine_codegen") = nfuncs + 1
              /\ Calls("close_subroutine_codegen") = nfuncs + 1

C3_FindName ==
    err = NoErr =>
        \A id \in DriverNames :
            LET f == find_name(SymTab, id)
                cur == tabs[table]
            IN  IF InTable(cur, id)
                THEN f.found /\ f.prop = PropIn(cur, id)
                ELSE IF saved_table # NULL
                THEN LET enc == tabs[saved_table]
                         callable == /\ InTable(enc, id)
                                     /\ IS_CALLABLE_TYPE(props[PropIn(enc, id)].type)
                     IN  /\ f.found <=> callable
                         /\ f.found => f.prop = PropIn(enc, id)
                ELSE ~f.found

\* inside a subroutine, a variable of the enclosing scope alone is looked up
\* and reported as not found
C3_Witness ==
    /\ ~main_is_active
    /\ out.cmd = "find"
    /\ ~out.ret
    /\ ~InTable(tabs[table], out.id)
    /\ InTable(tabs[saved_table], out.id)
    /\ ~IS_CALLABLE_TYPE(props[PropIn(tabs[saved_table], out.id)].type)

(***************************************************************************)
(* C4.  An insert_name of a name the current scope already holds returns   *)
(* FALSE to the driver, the process goes on, and the scope and the offset  *)
(* counter are as before.                                                  *)
(***************************************************************************)
C4_DuplicateInsertReturnsFalse ==
    [][ (out'.cmd = "insert" /\ InTable(tabs[table], out'.id)) =>
            /\ err' = NoErr
            /\ ~out'.ret
            /\ out'.msg = "Identifier already exists ... not added."
            /\ tabs' = tabs
            /\ curr_offset' = curr_offset ]_vars

(***************************************************************************)
(* C5.  An open_subroutine of a name the global scope already holds        *)
(* returns FALSE to the driver without opening a scope: the current scope, *)
(* the saved scope and the offset counter are as before.                   *)
(***************************************************************************)
C5_DuplicateOpenReturnsFalse ==
    [][ (out'.cmd = "open" /\ main_is_active /\ InTable(tabs[table], out'.id)) =>
            /\ err' = NoErr
            /\ ~out'.ret
            /\ table' = table
            /\ saved_table' = saved_table
            /\ tabs' = tabs
            /\ curr_offset' = curr_offset ]_vars

(***************************************************************************)
(* C6.  When the declarations of a body are accepted, the i-th variable of *)
(* its vars groups, in declaration order, has the offset that the counter  *)
(* had before the body plus i - 1, and the counter has advanced by the     *)
(* number of variables: the offsets are strictly increasing and distinct,  *)
(* one step of the counter each.                                           *)
(***************************************************************************)
C6_VarsOffsets ==
    [][ (pc = "body" /\ pc' = "statements") =>
            /\ \A i \in DOMAIN last'.ids :
                   /\ find_name(SymTabNext, last'.ids[i]).found
                   /\ Visible(SymTabNext, last'.ids[i]).offset = curr_offset + i - 1
            /\ curr_offset' = curr_offset + Len(last'.ids) ]_vars

\* "vars x, y as integer" in the body of a subroutine of two parameters
C6_Witness ==
    /\ pc = "statements"
    /\ last.kind = "vars"
    /\ last.ids = <<"x", "y">>
    /\ ~in_main
    /\ Visible(SymTab, "x").offset = 2
    /\ Visible(SymTab, "y").offset = 3
    /\ curr_offset = 4

(***************************************************************************)
(* C7.  After a subroutine header is accepted, find_name of its i-th       *)
(* parameter returns properties holding the type declared for that         *)
(* parameter and the offset i - 1.                                         *)
(***************************************************************************)
C7_ParamsKeepTheirProps ==
    (last.kind = "funcdef" /\ pc = "body" /\ err = NoErr) =>
        \A i \in DOMAIN last.ids :
            /\ find_name(SymTab, last.ids[i]).found
            /\ Visible(SymTab, last.ids[i]).type = last.types[i]
            /\ Visible(SymTab, last.ids[i]).offset = i - 1

(***************************************************************************)
(* C8.  The end of a subroutine, which closes its scope, leaves the offset *)
(* counter as it was, and so does close_subroutine wherever a scope is     *)
(* open; the counter is zero right after the open_subroutine of every      *)
(* accepted header, after any open_subroutine that succeeds where a header *)
(* may follow, and when the body of main begins.                           *)
(***************************************************************************)
C8_OffsetCounter ==
    [][ /\ (pc \in {"statements", "statement"} /\ pc' = "funcs") =>
               curr_offset' = curr_offset
        /\ saved_table # NULL =>
               get_variables_width(close_subroutine(SymTab)) =
                   get_variables_width(SymTab)
        /\ (pc = "funcs" /\ pc' = "body" /\ last'.kind = "funcdef") =>
               last'.opened = 0
        /\ pc = "funcs" =>
               \A id \in FuncNames \cup {"g"}, heap \in HeapChoices(SymTab) :
                   open_subroutine(idprop(SymTab, TYPE_CALLABLE, 0, 0, <<>>), id,
                                   Len(props) + 1, heap).ret =>
                       open_subroutine(idprop(SymTab, TYPE_CALLABLE, 0, 0, <<>>), id,
                                       Len(props) + 1, heap).s.curr_offset = 0
        /\ (pc = "funcs" /\ pc' = "body" /\ last'.kind = "main") =>
               curr_offset' = 0 ]_vars

\* the body of main begins at offset zero after a subroutine used offsets
C8_Witness ==
    /\ in_main
    /\ pc = "body"
    /\ last.kind = "main"
    /\ nfuncs = 1
    /\ Calls("close_subroutine_codegen") = 1
    /\ curr_offset = 0

\* the call of the statement gets as far as the count of its arguments: the
\* callee is visible, of the kind the form calls, with integer parameters,
\* and the target of the let is an integer variable
CallChecked(call) ==
    /\ call.form # "none"
    /\ find_name(SymTab, call.f).found
    /\ Visible(SymTab, call.f).params = IntParams(Visible(SymTab, call.f).nparams)
    /\ call.form = "do" => IS_PROCEDURE(Visible(SymTab, call.f).type)
    /\ call.form = "expr" =>
           /\ IS_FUNCTION(Visible(SymTab, call.f).type)
           /\ NeedMet(NeedX)

\* the code of the integer arguments 1 .. n
Pushes(n) == [i \in 1 .. n |-> [fn |-> "gen_2", op |-> "JVM_LDC", arg |-> i, name |-> ""]]

(***************************************************************************)
(* C9.  A statement that calls f with more arguments than f has            *)
(* parameters, as "do f(..)" or as "let x = f(..)", ends the compilation   *)
(* with "too many arguments for call to 'f'": the arguments up to the      *)
(* parameter count are compiled and no more, and what is left unread       *)
(* begins with the comma before the first surplus argument.                *)
(***************************************************************************)
C9_TooManyArguments ==
    [][ ( /\ nstmts' = nstmts + 1
          /\ CallChecked(last'.call)
          /\ last'.call.nargs > Visible(SymTab, last'.call.f).nparams ) =>
            /\ err' = abort_compile("ERR_TOO_MANY_ARGUMENTS", last'.call.f)
            /\ code' = code \o Pushes(Visible(SymTab, last'.call.f).nparams)
            /\ last'.rest =
                  SubSeq(last'.toks,
                         Len(last'.toks)
                           - 2 * (last'.call.nargs - Visible(SymTab, last'.call.f).nparams),
                         Len(last'.toks))
            /\ Head(last'.rest) = T("TOK_COMMA") ]_vars

\* "do f(1, 2, 3)" for a procedure of two parameters and "let x = f(1, 2)"
\* for a function of one end at the comma before the surplus argument
C9_Witness ==
    /\ err = abort_compile("ERR_TOO_MANY_ARGUMENTS", "f")
    /\ last.kind = "statement"
    /\ \/ /\ last.call = Call("do", "f", 3)
          /\ last.rest = <<T("TOK_COMMA"), Num(3), T("TOK_RPAR")>>
       \/ /\ last.call = Call("expr", "f", 2)
          /\ last.rest = <<T("TOK_COMMA"), Num(2), T("TOK_RPAR")>>

(***************************************************************************)
(* C10.  A statement that calls f with fewer arguments than f has          *)
(* parameters, an empty argument list included, ends the compilation with  *)
(* "too few arguments for call to 'f'".                                    *)
(***************************************************************************)
C10_TooFewArguments ==
    [][ ( /\ nstmts' = nstmts + 1
          /\ CallChecked(last'.call)
          /\ last'.call.nargs < Visible(SymTab, last'.call.f).nparams ) =>
            err' = abort_compile("ERR_TOO_FEW_ARGUMENTS", last'.call.f) ]_vars

\* the expression e compiled on its own in the present state, and its type
Alone(e) == parse_expr(Ctx(e), 0)
HasType(e, type) == ~Failed(Alone(e)) /\ Alone(e).ty = type

\* f is visible with two parameters and is what the form calls; the target of
\* the let is the integer variable x
CallOfTwo(form) ==
    /\ find_name(SymTab, "f").found
    /\ Visible(SymTab, "f").nparams = 2
    /\ form = "do" => IS_PROCEDURE(Visible(SymTab, "f").type)
    /\ form = "expr" =>
           /\ Visible(SymTab, "f").type = BitOr(TYPE_CALLABLE, TYPE_INTEGER)
           /\ NeedMet(NeedX)

(***************************************************************************)
(* C11.  A call of f with two arguments, as "do f(e1, e2)" or as           *)
(* "let x = f(e1, e2)", is accepted if and only if each argument, compiled *)
(* on its own, has the declared type of its parameter: what is decided for *)
(* the second argument does not depend on the first.                       *)
(***************************************************************************)
C11_ArgumentsCheckedAlone ==
    [][ \A form \in {"do", "expr"}, e1 \in ArgExprs, e2 \in ArgExprs :
            ( /\ nstmts' = nstmts + 1
              /\ last'.toks = CallStmt(form, e1, e2)
              /\ CallOfTwo(form) ) =>
                ( err' = NoErr <=>
                    /\ HasType(e1, Visible(SymTab, "f").params[1])
                    /\ HasType(e2, Visible(SymTab, "f").params[2]) ) ]_vars

(***************************************************************************)
(* C12.  "let y[i] = 0" for an array y and an index i that is not a plain  *)
(* integer (true, 1 + true, y) ends the compilation with an incompatible   *)
(* types error whose message is "for array index of 'y'".                  *)
(***************************************************************************)
C12_IndexErrorNamesArray ==
    [][ \A i \in NonIntegerIndexes :
            ( /\ nstmts' = nstmts + 1
              /\ last'.toks = IndexedLetToks("y", i, <<Num(0)>>)
              /\ find_name(SymTab, "y").found
              /\ IS_ARRAY(Visible(SymTab, "y").type) ) =>
                /\ err'.kind = "incompatible types"
                /\ err'.msg = "for array index of"
                /\ err'.id = "y" ]_vars

(***************************************************************************)
(* C13.  In "program p: main: let x = 5; output x end", where nothing      *)
(* declares x, the assignment is accepted and compiles to the push of 5    *)
(* followed by a store.                                                    *)
(***************************************************************************)
C13_UndeclaredLetCompiles ==
    [][ ( /\ nstmts' = nstmts + 1
          /\ in_main
          /\ nfuncs = 0
          /\ last'.toks = LetToks("x", <<Num(5)>>)
          /\ ~InTable(tabs[table], "x") ) =>
            /\ err' = NoErr
            /\ Len(code') = Len(code) + 2
            /\ code'[Len(code) + 1] =
                  [fn |-> "gen_2", op |-> "JVM_LDC", arg |-> 5, name |-> ""]
            /\ code'[Len(code) + 2].op = "JVM_ISTORE" ]_vars

\* the index in ids of the first identifier that repeats an earlier one
SecondOccurrence(ids) ==
    CHOOSE j \in DOMAIN ids :
        /\ \E i \in 1 .. j - 1 : ids[i] = ids[j]
        /\ \A k \in 1 .. j - 1 : \A i \in 1 .. k - 1 : ids[i] # ids[k]

\* what follows the n-th identifier of toks
RECURSIVE AfterIds(_, _)
AfterIds(toks, n) ==
    IF n = 0 \/ toks = <<>> THEN toks
    ELSE AfterIds(Tail(toks), IF Head(toks).type = "TOK_ID" THEN n - 1 ELSE n)

(***************************************************************************)
(* C14.  When the parameters of a header or the variables of a body name   *)
(* an identifier twice, in one group or in a later group, the compilation  *)
(* ends with "multiple definition" of that identifier as soon as its       *)
(* second occurrence is read: the tokens after it are unread and the       *)
(* symbol table holds what it held before the declarations.                *)
(***************************************************************************)
C14_DuplicateDeclaration ==
    [][ ( /\ \/ (pc = "body" /\ last'.kind = "vars")
             \/ (pc = "funcs" /\ last'.kind = "funcdef"
                   /\ ~find_name(SymTab, last'.key).found)
          /\ ~Distinct(last'.ids)
          /\ \A i \in DOMAIN last'.ids :
                 /\ ~find_name(SymTab, last'.ids[i]).found
                 /\ last'.ids[i] # last'.key ) =>
            /\ err' = abort_compile("ERR_MULTIPLE_DEFINITION",
                                    last'.ids[SecondOccurrence(last'.ids)])
            /\ last'.rest =
                  AfterIds(last'.toks,
                           SecondOccurrence(last'.ids)
                             + (IF last'.kind = "funcdef" THEN 1 ELSE 0))
            /\ tabs' = tabs
            /\ table' = table
            /\ saved_table' = saved_table
            /\ curr_offset' = curr_offset ]_vars

\* "vars x, x as integer" ended the compilation at the second x
C14_Witness ==
    /\ err = abort_compile("ERR_MULTIPLE_DEFINITION", "x")
    /\ last.kind = "vars"
    /\ last.ids = <<"x", "x">>
    /\ last.rest = <<T("TOK_AS"), T("TOK_INTEGER")>>
    /\ ~InTable(tabs[table], "x")

\* the operand, compiled on its own, is an integer or the call of a function
\* that returns an integer
IntegerValued(e) ==
    Alone(e).ty \in {TYPE_INTEGER, BitOr(TYPE_CALLABLE, TYPE_INTEGER)}

(***************************************************************************)
(* C15.  "if l relop r: chillax" with an ordering operator and operands    *)
(* that compile on their own is accepted when both operands are integers   *)
(* or calls of a function returning an integer, whichever side they are    *)
(* on, and ends with an incompatible types error otherwise.                *)
(***************************************************************************)
C15_OrderingOperands ==
    [][ \A l \in OrdOperands, relop \in OrdOperators, r \in OrdOperands :
            ( /\ nstmts' = nstmts + 1
              /\ last'.toks = IfOrdToks(l, relop, r)
              /\ ~Failed(Alone(l))
              /\ ~Failed(Alone(r)) ) =>
                IF IntegerValued(l) /\ IntegerValued(r)
                THEN err' = NoErr
                ELSE err'.kind = "incompatible types" ]_vars

(***************************************************************************)
(* C16.  "back e" is accepted, and compiles to a return, exactly when it   *)
(* is in the body of a function and e has the return type of the function; *)
(* it ends the compilation when the type of e differs from the return      *)
(* type, when e is given in a procedure or in main, and when no expression *)
(* is given in a function.                                                 *)
(***************************************************************************)
C16_BackTypes ==
    [][ \A e \in BackExprs :
            ( nstmts' = nstmts + 1 /\ last'.toks = BackToks(e) ) =>
                IF e # <<>> /\ ~in_main /\ return_type # TYPE_NONE
                   /\ HasType(e, return_type)
                THEN /\ err' = NoErr
                     /\ Len(code') > Len(code)
                     /\ code'[Len(code')].op = "JVM_IRETURN"
                ELSE /\ err' # NoErr
                     /\ \A i \in (Len(code) + 1)..Len(code') :
                            code'[i].op # "JVM_IRETURN"
                     /\ e # <<>> => err'.kind = "incompatible types"
                     /\ e = <<>> => err'.kind = "ERR_MISSING_BACK_EXPRESSION" ]_vars

\* "back 1" was accepted in a function that returns an integer
C16_Witness ==
    /\ last.kind = "statement"
    /\ last.toks = BackToks(<<Num(1)>>)
    /\ err = NoErr
    /\ ~in_main
    /\ return_type = TYPE_INTEGER
    /\ code[Len(code)].op = "JVM_IRETURN"

(***************************************************************************)
(* C17.  "let x = array 3" for a variable x that is not an array ends the  *)
(* compilation, and no instruction is emitted for the statement.           *)
(***************************************************************************)
C17_ArrayToNonArray ==
    [][ ( /\ nstmts' = nstmts + 1
          /\ last'.toks = LetArrayToks("x", <<Num(3)>>)
          /\ find_name(SymTab, "x").found
          /\ Visible(SymTab, "x").type = TYPE_INTEGER ) =>
            /\ err' # NoErr
            /\ code' = code ]_vars

\* the comments open at the end of a text that starts with a comment
RECURSIVE OpenComments(_)
OpenComments(chars) ==
    IF chars = <<>> THEN 0
    ELSE OpenComments(Tail(chars))
         + (IF Head(chars) = "{" THEN 1 ELSE IF Head(chars) = "}" THEN -1 ELSE 0)

\* the error was reported at the start of the token or comment that
\* get_token was scanning
AtTokenStart ==
    /\ scanner.error.line = scanner.token_start.line
    /\ scanner.error.col = scanner.token_start.col

(* C18. For every input with an unterminated string, the line and column   *)
(* reported with "string not closed" are those of the string's opening     *)
(* quote.                                                                  *)
C18_StringNotClosedAtQuote ==
    scanner.error.msg = "string not closed"
        => /\ scanner.text[scanner.token_start.index] = "\""
           /\ AtTokenStart

(* C19. When the end of the file is reached inside a comment that holds an *)
(* unclosed inner comment, "comment not closed" is reported at the start   *)
(* of the outermost comment.                                               *)
C19_CommentNotClosedAtOutermost ==
    ( /\ scanner.error.msg = "comment not closed"
      /\ OpenComments(SubSeq(scanner.text, scanner.token_start.index,
                             Len(scanner.text))) >= 2 )
        => /\ scanner.text[scanner.token_start.index] = "{"
           /\ AtTokenStart

RECURSIVE StripZeros(_)
StripZeros(ds) ==
    IF Len(ds) > 1 /\ Head(ds) = "0" THEN StripZeros(Tail(ds)) ELSE ds

\* a <= b for digit runs of one length
RECURSIVE DigitsLE(_, _)
DigitsLE(a, b) ==
    IF a = <<>> THEN TRUE
    ELSE IF DigitValue(Head(a)) < DigitValue(Head(b)) THEN TRUE
    ELSE IF DigitValue(Head(a)) > DigitValue(Head(b)) THEN FALSE
    ELSE DigitsLE(Tail(a), Tail(b))

\* the decimal value of a digit run is at most INT_MAX
AtMostIntMax(ds) ==
    LET s == StripZeros(ds)
        m == Numeral(Append(IntMaxTens, 7))
    IN  Len(s) < Len(m) \/ (Len(s) = Len(m) /\ DigitsLE(s, m))

\* the decimal value of a digit run that is at most INT_MAX
RECURSIVE DecimalValue(_)
DecimalValue(ds) ==
    IF ds = <<>> THEN 0
    ELSE DecimalValue(SubSeq(ds, 1, Len(ds) - 1)) * 10 + DigitValue(ds[Len(ds)])

\* the first digit with which a digit run exceeds INT_MAX
FirstExcess(ds) ==
    CHOOSE k \in 1..Len(ds) :
        /\ ~AtMostIntMax(SubSeq(ds, 1, k))
        /\ \A j \in 1..(k - 1) : AtMostIntMax(SubSeq(ds, 1, j))

DigitRun(text) == text # <<>> /\ \A i \in 1..Len(text) : isdigit(text[i])

(* C20. process_number accepts a digit run if and only if its decimal      *)
(* value is at most INT_MAX, and then yields exactly that value; a larger  *)
(* one fails with "number too large" at the first digit that would exceed  *)
(* INT_MAX, the value held being that of the digits before it.             *)
C20_NumberWithinIntMax ==
    [][ (scanner.ntokens = 0 /\ DigitRun(scanner.text))
          => IF AtMostIntMax(scanner.text)
             THEN /\ ~failed(scanner')
                  /\ scanner'.token.type = "TOK_NUM"
                  /\ scanner'.token.value = DecimalValue(scanner.text)
             ELSE /\ scanner'.error.msg = "number too large"
                  /\ scanner'.nread = FirstExcess(scanner.text)
                  /\ scanner'.ch = scanner.text[FirstExcess(scanner.text)]
                  /\ scanner'.token.value =
                         DecimalValue(SubSeq(scanner.text, 1,
                                             FirstExcess(scanner.text) - 1)) ]_vars

C20_Witness ==
    /\ scanner.text = Numeral(Append(IntMaxTens, 7))
    /\ scanner.ntokens = 1
    /\ ~failed(scanner)
    /\ scanner.token.value = INT_MAX

\* every backslash of a string is followed by n, t, a double quote or a
\* backslash, which it forms an escape code with
RECURSIVE WellEscaped(_)
WellEscaped(chars) ==
    IF chars = <<>> THEN TRUE
    ELSE IF Head(chars) # "\\" THEN WellEscaped(Tail(chars))
    ELSE /\ Len(chars) >= 2
         /\ chars[2] \in {"n", "t", "\"", "\\"}
         /\ WellEscaped(Tail(Tail(chars)))

(* C21. A backslash in a string literal that is followed by a character    *)
(* other than n, t, double quote or backslash is fatal wherever it stands, *)
(* the first character of the string included: no string with such a pair *)
(* is accepted as a token.                                                 *)
C21_IllegalEscapeEverywhere ==
    (scanner.token.type = "TOK_STR" /\ ~failed(scanner))
        => WellEscaped(scanner.token.string)

\* the token type of a lexeme by the table of reserved words
Classify(lexeme) ==
    IF \E i \in 1..NUM_RESERVED_WORDS : reserved[i].word = lexeme
    THEN reserved[CHOOSE i \in 1..NUM_RESERVED_WORDS :
                      reserved[i].word = lexeme].type
    ELSE "TOK_ID"

WordChar(c) == isalpha(c) \/ isdigit(c) \/ c = "_"

\* the longest run of word characters of a text from an index on
RECURSIVE WordRun(_, _)
WordRun(text, from) ==
    IF from <= Len(text) /\ WordChar(text[from])
    THEN <<text[from]>> \o WordRun(text, from + 1)
    ELSE <<>>

\* get_token has just scanned a word
WordScanned ==
    /\ scanner.ntokens >= 1
    /\ ~failed(scanner)
    /\ scanner.token_start.index \in 1..Len(scanner.text)
    /\ isalpha(scanner.text[scanner.token_start.index])
           \/ scanner.text[scanner.token_start.index] = "_"

(* C22. For every identifier-shaped lexeme the binary search of            *)
(* process_word ends, with the keyword token of a reserved word exactly    *)
(* when the lexeme is one of the 26 entries of the table, the first and    *)
(* the last included, and with an identifier token for every other one.   *)
C22_ReservedWords ==
    WordScanned =>
        /\ scanner.token.lexeme = WordRun(scanner.text, scanner.token_start.index)
        /\ scanner.token.type = Classify(scanner.token.lexeme)

\* the first and the last entry of the table were found, and a word one
\* character longer than an entry was taken for an identifier
C22_Witness ==
    /\ WordScanned
    /\ scanner.text \in { reserved[1].word, reserved[NUM_RESERVED_WORDS].word }
    /\ scanner.token.type \in {"TOK_AND", "TOK_WHILE"}

\* the step closed a subroutine definition or main
BodyClosed == last'.kind \in {"end", "chillax"} /\ err' = NoErr

\* the calls that the step made into the code generator
NewCalls == (Len(code) + 1)..Len(code')

(* C23. When a subroutine definition or main is closed, the backend's      *)
(* close operation receives the frame width of the subroutine, which is    *)
(* the variables width of the symbol table, and set_max_stack_depth        *)
(* receives its maximum stack depth; for subroutine definitions and main.  *)
C23_FrameWidthHandedOver ==
    [][ BodyClosed =>
          /\ Len(code') > Len(code)
          /\ code'[Len(code')].fn = "close_subroutine_codegen"
          /\ code'[Len(code')].arg = get_variables_width(SymTab)
          /\ \E i \in NewCalls :
                 /\ code'[i].fn = "set_max_stack_depth"
                 /\ code'[i].arg = max_stack_depth ]_vars

\* the places of the code where a label is placed, and where the label l is
Labels == {i \in DOMAIN code : code[i].fn = "gen_label"}
PlacedAt(l) == {i \in Labels : code[i].arg = l}
Place(l) == CHOOSE i \in PlacedAt(l) : TRUE

\* the branches of the code, those of the failed guards and the jumps
Branches == {i \in DOMAIN code : code[i].fn = "gen_2_label"}
GuardBranches == {i \in Branches : code[i].op = "JVM_IF_ICMPNE"}
Jumps == {i \in Branches : code[i].op = "JVM_GOTO"}
Target(i) == Place(code[i].arg)
ForwardJumps == {i \in Jumps : Target(i) > i}
BackwardJumps == {i \in Jumps : Target(i) < i}

\* the two places of the code belong to one subroutine
SameSubroutine(i, j) ==
    \A k \in DOMAIN code :
        ((i < k /\ k <= j) \/ (j < k /\ k <= i))
            => code[k].fn # "init_subroutine_codegen"

StackEffect(call) ==
    CASE call.fn = "gen_2" /\ call.op \in {"JVM_LDC", "JVM_ILOAD", "JVM_ALOAD"} -> 1
      [] call.fn = "gen_2" /\ call.op \in {"JVM_ISTORE", "JVM_ASTORE"} -> -1
      [] call.fn = "gen_1" /\ call.op \in {"JVM_IADD", "JVM_IMUL", "JVM_IDIV",
                                           "JVM_IREM", "JVM_IAND", "JVM_IOR",
                                           "JVM_IALOAD", "JVM_IRETURN"} -> -1
      [] call.fn = "gen_1" /\ call.op = "JVM_IASTORE" -> -3
      [] call.fn = "gen_2_label" /\ call.op = "JVM_IF_ICMPNE" -> -2
      [] call.fn \in {"gen_cmp", "gen_print"} -> -1
      [] OTHER -> 0

\* the code of the body being compiled
BodyStart ==
    CHOOSE i \in DOMAIN code :
        code[i].fn = "init_subroutine_codegen" /\ InBody(i + 1)

\* the operands on the stack after the first n calls of the body
RECURSIVE OperandsAfter(_)
OperandsAfter(n) ==
    IF n = 0 THEN 0 ELSE OperandsAfter(n - 1) + StackEffect(code[BodyStart + n])

\* a body is being compiled and no call has been emitted in it
InBodyWithoutCalls ==
    /\ err = NoErr
    /\ pc \in {"statements", "statement"}
    /\ \A i \in DOMAIN code : (i > BodyStart) => code[i].fn # "gen_call"

(* C25. While a subroutine body is compiled the tracked stack_depth is the *)
(* number of operands that the instructions emitted so far leave on the    *)
(* operand stack; so it is never negative and max_stack_depth is at least  *)
(* the greatest operand-stack depth of the emitted code.                   *)
C25_StackDepthTracked ==
    InBodyWithoutCalls =>
        /\ stack_depth = OperandsAfter(Len(code) - BodyStart)
        /\ stack_depth >= 0
        /\ \A n \in 0..(Len(code) - BodyStart) : max_stack_depth >= OperandsAfter(n)

\* the step compiled a statement that calls a subroutine
CallCompiled ==
    /\ nstmts' = nstmts + 1
    /\ last'.kind = "statement"
    /\ last'.call.form # "none"
    /\ err' = NoErr

(* C26. Every subroutine call emits a call-by-name instruction after the   *)
(* instructions of its arguments, for a call inside an expression and for  *)
(* a procedure call made with a do statement.                              *)
C26_CallsEmitted ==
    [][ CallCompiled =>
          \E i \in NewCalls :
              /\ code'[i].fn = "gen_call"
              /\ code'[i].name = last'.call.f
              /\ \A j \in NewCalls : code'[j].op = "JVM_LDC" => j < i ]_vars

\* the step compiled the statement toks without an error
Compiled(toks) ==
    /\ nstmts' = nstmts + 1
    /\ last'.kind = "statement"
    /\ last'.toks = toks
    /\ err' = NoErr

(* C27. Every operator application emits at least one instruction for the  *)
(* operator, the same in every context: a unary minus and a not emit a     *)
(* negation, and a comparison emits the compare instruction of its own     *)
(* operator in a guard, in a guard after a nested while has finished, in   *)
(* an assignment and in an output.                                         *)
C27_OperatorsEmitted ==
    [][ \A s \in OperatorStatements :
            Compiled(s.toks) =>
                \E i \in NewCalls : code'[i].fn = s.fn /\ code'[i].op \in s.ops ]_vars

\* the table that init_symbol_table made is the current one
GlobalCurrent == table = init_symbol_table.table

\* the step made a table for a subroutine
ScopeOpened == Len(tabs') > Len(tabs)

(* C28. At most one local scope is open at every point of compilation:    *)
(* the enclosing scope, when there is one, is the global one;              *)
(* open_subroutine is only called while the global scope is current; the   *)
(* global scope is current wherever a subroutine definition or main may    *)
(* begin and when the program has ended; and main's body is compiled with  *)
(* the global scope current.                                               *)
C28_OneLocalScope ==
    /\ [](/\ saved_table \in {NULL, init_symbol_table.table}
          /\ ~GlobalCurrent => saved_table = init_symbol_table.table
          /\ pc \in {"program", "funcs", "done"} => GlobalCurrent
          /\ in_main => GlobalCurrent)
    /\ [][ScopeOpened => GlobalCurrent /\ Len(tabs') = Len(tabs) + 1]_vars

\* main's statements are compiled after a subroutine's scope was opened and
\* closed
C28_Witness ==
    /\ err = NoErr
    /\ in_main
    /\ pc = "statement"
    /\ nfuncs = 1
    /\ Len(tabs) = 2
    /\ GlobalCurrent

\* the step read "input x" where x is visible as an integer scalar
InputOfScalar ==
    /\ nstmts' = nstmts + 1
    /\ last'.kind = "statement"
    /\ last'.toks = <<T("TOK_INPUT"), Id("x")>>
    /\ NeedMet(NeedX)

(* C29. An input statement that names a declared integer scalar variable   *)
(* without an index, "input x", is accepted.                               *)
C29_InputScalarAccepted == [][InputOfScalar => err' = NoErr]_vars

\* the step was an ht_insert on the caller's table
HtInserted == out'.cmd = "ht_insert"

\* the ht_insert of the step had to rehash
Rehashed == out'.ret /\ NeedsRehash(tabs[table])

\* what ht_insert promises its caller about the table it holds
HtInsertKept ==
    /\ ~tabs'[table'].freed
    /\ \A k \in HtKeys :
           ht_search(tabs[table], k).found =>
               ht_search(tabs'[table'], k) = ht_search(tabs[table], k)
    /\ out'.ret =>
           ht_search(tabs'[table'], out'.id) = [found |-> TRUE, value |-> out'.prop]
    /\ tabs'[table'].num_entries =
           tabs[table].num_entries + (IF out'.ret THEN 1 ELSE 0)
    /\ tabs'[table'].size =
           IF Rehashed THEN getsize(tabs[table].idx + 1) ELSE tabs[table].size

(* C30. Every ht_insert, the one that reaches the maximal load factor and  *)
(* rehashes included, leaves the caller's table holding every key inserted *)
(* before with its value and, when it succeeds, the new key with its       *)
(* value; the entry count grows by one for each successful insert; and a   *)
(* table that was rehashed has the next prime size.                        *)
C30_HtInsertRoundTrip == [][HtInserted => HtInsertKept]_vars

====
